---- MODULE Spec2Model ----
(***************************************************************************)
(* Model of the model-provisioning core of AddaxAI-WebUI:                  *)
(*   - the progress hub        (backend/app/core/websocket_manager.py)     *)
(*   - the background tasks    (backend/app/api/routers/ml_models.py,      *)
(*                              backend/app/workers/detection_worker.py)   *)
(*   - the environment manager (backend/app/ml/environment_manager.py)     *)
(*   - the inference runners   (backend/app/ml/detection.py and            *)
(*                              backend/app/ml/detection/megadetector_runner.py) *)
(*   - the repository downloader (backend/app/ml/hf_downloader.py)         *)
(* Each component has its own specification over the shared variables;     *)
(* the variables of the other components stay at their initial values.     *)
(***************************************************************************)
EXTENDS Integers, Sequences, FiniteSets, TLC

VARIABLES
    \* ---- progress hub (ConnectionManager) ----
    active_connections, \* dict job_id -> list of websockets (a function on its keys)
    hPc,                \* position of each websocket endpoint coroutine
    wsJob,              \* job id a websocket subscribed to (0 before connect)
    alive,              \* FALSE once the client side of the websocket is gone
    received,           \* events delivered to each websocket, in delivery order
    co,                 \* the send_* coroutines: the task's own one and the handed-off ones
    nextEv,             \* number of send_* calls made so far (publish order)
    sendq,              \* per websocket: the coroutines whose send_json to it is under way, oldest first
    \* ---- background task (publisher) ----
    tKind,              \* which task runs
    tState,             \* "idle", "run", "await", "stage", "done"
    tPc,                \* index of the next instruction in the task's program
    tTerm,              \* the terminal send_* calls the task made, in order
    tStagesOk,          \* number of blocking stages that finished without exception
    tFail,              \* index of the first instruction that raised, 0 if none did
    \* ---- environment manager (EnvironmentManager) ----
    envDir,             \* the directory envs_dir/env-<name>: "absent", "partial", "valid"
    envContent,         \* version of environment.yml the interpreter in envDir was installed from
    yamlVer,            \* version of the content of environment.yml
    yamlPresent,        \* environment.yml exists for this platform
    eCall,              \* per calling thread: position and locals of get_or_create_env
    eLog,               \* the calls made so far, in the order they started
    \* ---- inference runner (MegaDetectorRunner) ----
    rImpl,              \* which of the two run_detection implementations is called
    rJob,               \* per job: position, locals and child process of run_detection
    rOut,               \* the temporary result files, by path
    rOwner,             \* per path: the job whose run made or last wrote the file, 0 if none
    vPc,                \* position of validate_environment
    vErr,               \* the exception or exit status validate_environment met
    vRet,               \* what validate_environment returned
    \* ---- repository downloader (HuggingFaceRepoDownloader) ----
    dPc,                \* position of download_repo
    dFile,              \* per file: remote size, recorded size, local file, future
    total_bytes,        \* self.total_bytes
    downloaded_bytes,   \* self.downloaded_bytes
    failed_downloads,   \* the local counter of download_repo
    dRet,               \* what download_repo returned
    lock,               \* self.lock: the file whose thread holds it, or Unlocked
    passed,             \* sum of the byte counts passed to update_progress so far
    dProg,              \* the last fraction passed to progress_callback, as <<numerator, denominator>>
    executor,           \* max_workers of the ThreadPoolExecutor of download_repo, 0 when there is none
    dRuns,              \* number of download_repo calls made on this downloader
    \* ---- adaptive worker scaling (HuggingFaceRepoDownloader) ----
    ctor_max_workers,   \* the max_workers argument of the constructor
    max_workers,        \* self.max_workers
    speed_samples,      \* self.speed_samples
    last_adjustment_time, \* self.last_adjustment_time
    now,                \* time.time(), in seconds since the downloader was made
    aOp,                \* the last operation and how it ended
    \* ---- result storage (save_detection_results) ----
    sDet,               \* the detection of the inference output being converted
    sOut                \* what became of it: st is "none", "stored" (with the record) or "ValidationError"

hubVars == <<active_connections, hPc, wsJob, alive, received, co, nextEv, sendq>>
taskVars == <<tKind, tState, tPc, tTerm, tStagesOk, tFail>>
envVars == <<envDir, envContent, yamlVer, yamlPresent, eCall, eLog>>
runVars == <<rImpl, rJob, rOut, rOwner>>
dlVars == <<dPc, dFile, total_bytes, downloaded_bytes, failed_downloads, dRet, lock, passed, dProg,
           executor, dRuns>>
adjVars == <<ctor_max_workers, max_workers, speed_samples, last_adjustment_time, now, aOp>>
saveVars == <<sDet, sOut>>
valVars == <<vPc, vErr, vRet>>
vars == <<hubVars, taskVars, envVars, runVars, dlVars, adjVars, saveVars, valVars>>

----------------------------------------------------------------------------
\* Bounds of the hub model
NumJobs == 1
NumWebSockets == 2
MaxHandoff == 1

JobIds == 1..NumJobs
WebSockets == 1..NumWebSockets
Handoffs == 1..MaxHandoff
Main == 0
CoIds == {Main} \cup Handoffs
TaskJob == CHOOSE j \in JobIds : TRUE

----------------------------------------------------------------------------
\* Sequence helpers

InSeq(x, s) == \E i \in 1..Len(s) : s[i] = x

\* list.remove(x): drops the first occurrence of x
ListRemove(s, x) ==
    LET i == CHOOSE k \in 1..Len(s) : s[k] = x /\ \A m \in 1..(k-1) : s[m] # x
    IN  [k \in 1..(Len(s) - 1) |-> IF k < i THEN s[k] ELSE s[k + 1]]

RECURSIVE RemovePresent(_, _)
\* for connection in disconnected: if connection in lst: lst.remove(connection)
RemovePresent(lst, disconnected) ==
    IF disconnected = <<>> THEN lst
    ELSE LET c == Head(disconnected)
         IN  RemovePresent(IF InSeq(c, lst) THEN ListRemove(lst, c) ELSE lst,
                           Tail(disconnected))

DictDel(d, k) == [x \in (DOMAIN d) \ {k} |-> d[x]]
DictSet(d, k, v) == [x \in (DOMAIN d) \cup {k} |-> IF x = k THEN v ELSE d[x]]

----------------------------------------------------------------------------
\* Variables of the other components
notHub == <<envVars, runVars, dlVars, adjVars, saveVars, valVars>>
notEnv == <<hubVars, taskVars, runVars, dlVars, adjVars, saveVars, valVars>>
notRun == <<hubVars, taskVars, envVars, dlVars, adjVars, saveVars, valVars>>
notDl == <<hubVars, taskVars, envVars, runVars, adjVars, saveVars, valVars>>
notAdj == <<hubVars, taskVars, envVars, runVars, dlVars, saveVars, valVars>>
notVal == <<hubVars, taskVars, envVars, runVars, dlVars, adjVars, saveVars>>
notSave == <<hubVars, taskVars, envVars, runVars, dlVars, adjVars, valVars>>

----------------------------------------------------------------------------
(***************************************************************************)
(* Progress hub: ConnectionManager                                         *)
(*                                                                         *)
(* All hub code runs on one asyncio event loop, so a coroutine runs        *)
(* without interruption from one suspension point to the next.  The only   *)
(* suspension points of the hub are the awaits of send_json: no code       *)
(* awaits while it holds self._lock, so acquiring the lock never suspends  *)
(* and each "async with self._lock" block is part of the step it is in.    *)
(***************************************************************************)

\* sub0 and fail are history: the subscribers at the start of the call, and
\* those whose send_json raised during it
IdleCo == [st |-> "idle", op |-> "none", job |-> 0, ev |-> 0, idx |-> 0,
           cur |-> 0, live |-> FALSE, lst |-> <<>>, disc |-> <<>>,
           sub0 |-> <<>>, fail |-> {}]

Finished(rec, how) == [IdleCo EXCEPT !.st = how, !.op = rec.op, !.job = rec.job, !.ev = rec.ev,
                                     !.sub0 = rec.sub0, !.fail = rec.fail]

\* The message a send_* call delivers
Event(rec) == [t |-> rec.op, n |-> rec.ev, job |-> rec.job]

\* The task's own coroutine is running (not suspended): nothing else on the loop runs
MainRunning == \/ tState = "run"
               \/ tState = "await" /\ co[Main].st \in {"returned", "raised"}

get_connection_count(job_id) ==
    IF job_id \in DOMAIN active_connections THEN Len(active_connections[job_id]) ELSE 0

\* The list object of job_id leaves the dict: a for-loop that iterates that
\* object goes on over the object as it was left (lst)
Detach(cofn, job_id, lst) ==
    [d \in CoIds |-> IF cofn[d].st = "sending" /\ cofn[d].live /\ cofn[d].job = job_id
                     THEN [cofn[d] EXCEPT !.live = FALSE, !.lst = lst]
                     ELSE cofn[d]]

CloseChannel_Skip(d, job_id) == d

\* send_complete, after the loop: "if job_id in self.active_connections: del ..."
CloseChannel(d, job_id) == IF job_id \in DOMAIN d THEN DictDel(d, job_id) ELSE d

\* send_error, after the loop: nothing is removed
KeepChannel(d, job_id) == d

\* send_progress, after the loop: the failed connections still listed are removed
CleanupDisconnected(d, job_id, disconnected) ==
    [d EXCEPT ![job_id] = RemovePresent(@, disconnected)]

\* The code that follows the for-loop of send_progress / send_complete / send_error
AfterLoop(c, rec) ==
    CASE rec.op = "progress" ->
            IF rec.disc = <<>>
            THEN /\ co' = [co EXCEPT ![c] = Finished(rec, "returned")]
                 /\ UNCHANGED active_connections
            ELSE IF rec.job \notin DOMAIN active_connections
            THEN \* self.active_connections[job_id] raises KeyError
                 /\ co' = [co EXCEPT ![c] = Finished(rec, "raised")]
                 /\ UNCHANGED active_connections
            ELSE /\ active_connections' =
                        CleanupDisconnected(active_connections, rec.job, rec.disc)
                 /\ co' = [co EXCEPT ![c] = Finished(rec, "returned")]
      [] rec.op = "complete" ->
            /\ active_connections' = CloseChannel(active_connections, rec.job)
            /\ co' = [IF rec.job \in DOMAIN active_connections
                         /\ rec.job \notin DOMAIN active_connections'
                      THEN Detach(co, rec.job, active_connections[rec.job])
                      ELSE co EXCEPT ![c] = Finished(rec, "returned")]
      [] rec.op = "error" ->
            /\ active_connections' = KeepChannel(active_connections, rec.job)
            /\ co' = [co EXCEPT ![c] = Finished(rec, "returned")]

\* One turn of "for connection in <list>": the list iterator hands out the
\* element at its index and send_json is called on it, or the loop ends.
\* Messages sent to one websocket go out in the order of the send_json
\* calls (q is the queue of the calls under way).
Iterate(c, rec, q) ==
    LET lst == IF rec.live THEN active_connections[rec.job] ELSE rec.lst
    IN  IF rec.idx < Len(lst)
        THEN /\ co' = [co EXCEPT ![c] = [rec EXCEPT !.st = "sending",
                                                    !.idx = rec.idx + 1,
                                                    !.cur = lst[rec.idx + 1]]]
             /\ sendq' = [q EXCEPT ![lst[rec.idx + 1]] = Append(@, c)]
             /\ UNCHANGED active_connections
        ELSE /\ AfterLoop(c, rec)
             /\ sendq' = q

\* send_progress iterates the dict's list itself; send_complete and
\* send_error iterate a copy, list(self.active_connections[job_id])
IteratesLiveList(op) == op = "progress"

\* Coroutine c calls send_<op>(job_id) and runs up to its first await
\* An event is published (gets its number) when the task calls send_*, or
\* when a callback hands the send_progress coroutine to the loop
Call(c, op, job_id) ==
    LET ev == IF co[c].st = "scheduled" THEN co[c].ev ELSE nextEv + 1 IN
    /\ nextEv' = IF co[c].st = "scheduled" THEN nextEv ELSE nextEv + 1
    /\ IF job_id \notin DOMAIN active_connections
       THEN /\ co' = [co EXCEPT ![c] =
                        Finished([IdleCo EXCEPT !.op = op, !.job = job_id,
                                                !.ev = ev], "returned")]
            /\ UNCHANGED <<active_connections, sendq>>
       ELSE Iterate(c, [st |-> "sending", op |-> op, job |-> job_id,
                        ev |-> ev, idx |-> 0, cur |-> 0,
                        live |-> IteratesLiveList(op),
                        lst |-> IF IteratesLiveList(op) THEN <<>>
                                ELSE active_connections[job_id],
                        disc |-> <<>>,
                        sub0 |-> active_connections[job_id], fail |-> {}], sendq)

send_progress(c, job_id) == Call(c, "progress", job_id)
send_complete(c, job_id) == Call(c, "complete", job_id)
send_error(c, job_id) == Call(c, "error", job_id)

\* An awaited connection.send_json(...) finishes: the message is delivered,
\* or the send raises because the client is gone; then the loop goes on
SendJson(c) ==
    /\ co[c].st = "sending"
    /\ ~MainRunning
    /\ Head(sendq[co[c].cur]) = c
    /\ LET rec == co[c]
           w == rec.cur
           q == [sendq EXCEPT ![w] = Tail(@)]
       IN  IF alive[w]
           THEN /\ received' = [received EXCEPT ![w] = Append(@, Event(rec))]
                /\ Iterate(c, rec, q)
           ELSE /\ UNCHANGED received
                /\ Iterate(c, IF rec.op = "progress"
                              THEN [rec EXCEPT !.disc = Append(@, w), !.fail = @ \cup {w}]
                              ELSE [rec EXCEPT !.fail = @ \cup {w}], q)
    /\ UNCHANGED <<hPc, wsJob, alive, nextEv, taskVars, notHub>>

connect_Replay(w, job_id) ==
    /\ hPc[w] = "new"
    /\ ~MainRunning
    /\ active_connections' =
          DictSet(active_connections, job_id,
                  Append(IF job_id \in DOMAIN active_connections
                         THEN active_connections[job_id] ELSE <<>>, w))
    /\ hPc' = [hPc EXCEPT ![w] = "open"]
    /\ wsJob' = [wsJob EXCEPT ![w] = job_id]
    /\ received' = [received EXCEPT ![w] =
                      IF nextEv > 0
                      THEN Append(@, [t |-> "progress", n |-> nextEv, job |-> job_id])
                      ELSE @]
    /\ UNCHANGED <<alive, co, nextEv, sendq, taskVars, notHub>>

\* ConnectionManager.connect, called by the websocket endpoint
connect(w, job_id) ==
    /\ hPc[w] = "new"
    /\ ~MainRunning
    /\ active_connections' =
          DictSet(active_connections, job_id,
                  Append(IF job_id \in DOMAIN active_connections
                         THEN active_connections[job_id] ELSE <<>>, w))
    /\ hPc' = [hPc EXCEPT ![w] = "open"]
    /\ wsJob' = [wsJob EXCEPT ![w] = job_id]
    /\ UNCHANGED <<alive, received, co, nextEv, sendq, taskVars, notHub>>

\* The client goes away: receive_text() of its endpoint will raise
\* WebSocketDisconnect and every later send_json to it raises
ClientDrop(w) ==
    /\ hPc[w] = "open"
    /\ alive[w]
    /\ ~MainRunning
    /\ alive' = [alive EXCEPT ![w] = FALSE]
    /\ UNCHANGED <<active_connections, hPc, wsJob, received, co, nextEv, sendq, taskVars, notHub>>

\* ConnectionManager.disconnect, called by the endpoint's except clauses
disconnect(w) ==
    /\ hPc[w] = "open"
    /\ ~alive[w]
    /\ ~MainRunning
    /\ LET job_id == wsJob[w] IN
       IF job_id \in DOMAIN active_connections
       THEN IF InSeq(w, active_connections[job_id])
            THEN LET rest == ListRemove(active_connections[job_id], w) IN
                 /\ hPc' = [hPc EXCEPT ![w] = "closed"]
                 /\ IF rest = <<>>
                    THEN /\ active_connections' = DictDel(active_connections, job_id)
                         /\ co' = Detach(co, job_id, <<>>)
                    ELSE /\ active_connections' =
                                [active_connections EXCEPT ![job_id] = rest]
                         /\ UNCHANGED co
            ELSE \* list.remove(x) raises ValueError: x not in list
                 /\ hPc' = [hPc EXCEPT ![w] = "raised"]
                 /\ UNCHANGED <<active_connections, co>>
       ELSE /\ hPc' = [hPc EXCEPT ![w] = "closed"]
            /\ UNCHANGED <<active_connections, co>>
    /\ UNCHANGED <<wsJob, alive, received, nextEv, sendq, taskVars, notHub>>

----------------------------------------------------------------------------
(***************************************************************************)
(* Background tasks: _prepare_model_task, _prepare_weights_task,           *)
(* _prepare_env_task (ml_models.py) and process_deployment_analysis        *)
(* (detection_worker.py).  A task is the sequence of its awaits:           *)
(*   "P"  await ws_manager.send_progress(...)                              *)
(*   "T"  await asyncio.to_thread(<blocking stage>, ..., callback); the    *)
(*        callback hands a send_progress to the loop from the thread       *)
(*        (run_coroutine_threadsafe)                                       *)
(*   "Q"  blocking code run on the loop itself                             *)
(*   "Y"  blocking code run on the loop whose callback does                *)
(*        asyncio.create_task(ws_manager.send_progress(...))               *)
(*   "C"  await ws_manager.send_complete(...)                              *)
(*   "E"  the except clause: await ws_manager.send_error(...)              *)
(***************************************************************************)

TaskKinds == {"prepare_model", "prepare_weights", "prepare_env", "deployment"}

Program(kind) ==
    CASE kind = "prepare_model"   -> <<"P", "P", "T", "P", "P", "T", "C", "E">>
      [] kind = "prepare_weights" -> <<"P", "T", "C", "E">>
      [] kind = "prepare_env"     -> <<"P", "T", "C", "E">>
      [] kind = "deployment"      -> <<"P", "Q", "P", "Q", "P", "Q", "P", "Y", "P", "Q", "C", "E">>

Instr == Program(tKind)[tPc]
ExceptPc(kind) == Len(Program(kind))
NumStages(kind) == Cardinality({i \in 1..Len(Program(kind)) : Program(kind)[i] \in {"T", "Q", "Y"}})

OnException_Swallow(kind, pc) == pc + 1

\* The handler of a task: where control goes when the awaited call raised
OnException(kind, pc) == ExceptPc(kind)

\* The instruction whose exception reached the handler first
Raised(first, pc) == IF first = 0 THEN pc ELSE first

\* The hand-off slots are used in order
NextFreeHandoff == {h \in Handoffs : co[h].st = "idle" /\ \A g \in Handoffs : g < h => co[g].st # "idle"}
Schedule(cofn, h) == [cofn EXCEPT ![h] = [IdleCo EXCEPT !.st = "scheduled", !.ev = nextEv + 1]]

\* asyncio.create_task(_prepare_..._task(...)) / the job processor starts the worker
StartTask ==
    /\ tState = "idle"
    /\ tState' = "run"
    /\ tPc' = 1
    /\ UNCHANGED <<tKind, tTerm, tStagesOk, tFail, hubVars, notHub>>

\* The task awaits one of the hub's send_* methods
TaskSend ==
    /\ tState = "run"
    /\ Instr \in {"P", "C", "E"}
    /\ CASE Instr = "P" -> send_progress(Main, TaskJob)
         [] Instr = "C" -> send_complete(Main, TaskJob)
         [] Instr = "E" -> send_error(Main, TaskJob)
    /\ tTerm' = CASE Instr = "P" -> tTerm
                  [] Instr = "C" -> Append(tTerm, "complete")
                  [] Instr = "E" -> Append(tTerm, "error")
    /\ tState' = "await"
    /\ UNCHANGED <<tKind, tPc, tStagesOk, tFail, hPc, wsJob, alive, received, notHub>>

\* The awaited send_* call returned or raised: the task goes on
TaskResume ==
    /\ tState = "await"
    /\ co[Main].st \in {"returned", "raised"}
    /\ co' = [co EXCEPT ![Main] = IdleCo]
    /\ IF co[Main].st = "raised"
       THEN /\ tPc' = OnException(tKind, tPc)
            /\ tFail' = Raised(tFail, tPc)
            /\ tState' = "run"
       ELSE IF Instr \in {"C", "E"}
       THEN /\ tState' = "done"
            /\ UNCHANGED <<tPc, tFail>>
       ELSE /\ tPc' = tPc + 1
            /\ tState' = "run"
            /\ UNCHANGED tFail
    /\ UNCHANGED <<tKind, tTerm, tStagesOk, active_connections, hPc, wsJob, alive,
                   received, nextEv, sendq, notHub>>

\* Blocking code on the loop: it returns or raises; its progress callback
\* (deployment analysis) creates tasks that run once this task suspends
TaskSyncStage(ok, k) ==
    /\ tState = "run"
    /\ Instr \in {"Q", "Y"}
    /\ \/ k = 0 /\ UNCHANGED <<co, nextEv>>
       \/ /\ k = 1 /\ Instr = "Y"
          /\ \E h \in NextFreeHandoff : co' = Schedule(co, h)
          /\ nextEv' = nextEv + 1
    /\ IF ok
       THEN tPc' = tPc + 1 /\ tStagesOk' = tStagesOk + 1 /\ UNCHANGED tFail
       ELSE tPc' = OnException(tKind, tPc) /\ tFail' = Raised(tFail, tPc) /\ UNCHANGED tStagesOk
    /\ UNCHANGED <<tKind, tState, tTerm, active_connections, hPc, wsJob, alive,
                   received, sendq, notHub>>

\* await asyncio.to_thread(...): the stage starts in a worker thread
TaskThreadStart ==
    /\ tState = "run"
    /\ Instr = "T"
    /\ tState' = "stage"
    /\ UNCHANGED <<tKind, tPc, tTerm, tStagesOk, tFail, hubVars, notHub>>

\* The stage's thread calls the progress callback: run_coroutine_threadsafe
ThreadCallback ==
    /\ tState = "stage"
    /\ \E h \in NextFreeHandoff : co' = Schedule(co, h)
    /\ nextEv' = nextEv + 1
    /\ UNCHANGED <<active_connections, hPc, wsJob, alive, received, sendq, taskVars, notHub>>

\* The stage returns or raises and the task resumes; the loop runs callbacks
\* in the order they were scheduled, so the coroutines handed off by the
\* stage have started by then
TaskThreadEnd(ok) ==
    /\ tState = "stage"
    /\ \A h \in Handoffs : co[h].st # "scheduled"
    /\ tState' = "run"
    /\ IF ok
       THEN tPc' = tPc + 1 /\ tStagesOk' = tStagesOk + 1 /\ UNCHANGED tFail
       ELSE tPc' = OnException(tKind, tPc) /\ tFail' = Raised(tFail, tPc) /\ UNCHANGED tStagesOk
    /\ UNCHANGED <<tKind, tTerm, hubVars, notHub>>

\* The task is cancelled while it awaits a blocking stage: CancelledError is
\* raised at the await; it is no Exception, so the except clause of the task
\* does not run and the task ends
TaskCancel ==
    /\ tState = "stage"
    /\ tState' = "cancelled"
    /\ UNCHANGED <<tKind, tPc, tTerm, tStagesOk, tFail, hubVars, notHub>>

\* A handed-off send_progress coroutine starts on the loop
HandoffBegin(h) ==
    /\ co[h].st = "scheduled"
    /\ \A g \in Handoffs : g < h => co[g].st # "scheduled"
    /\ ~MainRunning
    /\ send_progress(h, TaskJob)
    /\ UNCHANGED <<hPc, wsJob, alive, received, taskVars, notHub>>

----------------------------------------------------------------------------
HubInit ==
    /\ active_connections = <<>>
    /\ hPc = [w \in WebSockets |-> "new"]
    /\ wsJob = [w \in WebSockets |-> 0]
    /\ alive = [w \in WebSockets |-> TRUE]
    /\ received = [w \in WebSockets |-> <<>>]
    /\ co = [c \in CoIds |-> IdleCo]
    /\ nextEv = 0
    /\ sendq = [w \in WebSockets |-> <<>>]

TaskInit ==
    /\ tKind \in TaskKinds
    /\ tState = "idle"
    /\ tPc = 1
    /\ tTerm = <<>>
    /\ tStagesOk = 0
    /\ tFail = 0


----------------------------------------------------------------------------
(***************************************************************************)
(* Environment manager: EnvironmentManager.get_or_create_env for one       *)
(* manifest, called from worker threads (asyncio.to_thread), so calls      *)
(* interleave at every file-system access and while micromamba runs.       *)
(***************************************************************************)

NumCallers == 2
MaxCalls == 2
MaxLines == 2
MaxYamlVer == 2

Callers == 1..NumCallers

IdleCall == [pc |-> "idle", idx |-> 0, tool |-> "none", toolYaml |-> 0,
             last_line |-> 0, err |-> "none"]

\* One entry of the call log
NewCall(ov) ==
    [y0 |-> yamlVer, y1 |-> 0, ov |-> ov, inv |-> 0, fast |-> FALSE,
     out |-> "running", dir |-> "none", content |-> 0,
     inCreate |-> FALSE, lines |-> 0, err |-> "none", errLine |-> 0,
     prog |-> <<>>]

\* progress_callback(message, fraction): the fractions a call has reported, in
\* hundredths, in call order
Report(rec, fraction) == [rec EXCEPT !.prog = Append(@, fraction)]

\* The loop body of lines 245-252 calls progress_callback(line[:80], 0.5) for
\* each new non-empty line
ReportLine(rec, last_line, n) == IF n > last_line THEN Report(rec, 50) ELSE rec

validate_env_Never(dir) == FALSE

\* _validate_env: the interpreter exists inside the environment directory
validate_env(dir) == dir = "valid"

\* env_path.exists()
env_exists(dir) == dir # "absent"

\* get_python lines 324-332 on the directory: it returns the interpreter's
\* path when the directory and the interpreter exist, else it raises
\* FileNotFoundError
GetPythonSucceeds(dir) == env_exists(dir) /\ validate_env(dir)

\* The call returns or raises: what the caller can observe is logged
EndCall(c, out, upd) ==
    /\ eCall' = [eCall EXCEPT ![c] = [IdleCall EXCEPT !.pc = out, !.idx = eCall[c].idx]]
    /\ eLog' = [eLog EXCEPT ![eCall[c].idx] =
                  [upd EXCEPT !.out = out, !.y1 = yamlVer,
                              !.lines = eCall[c].last_line]]

Active(c) == eCall[c].pc \notin {"idle", "returned", "raised"}

\* A thread calls get_or_create_env(manifest, progress_callback)
StartCall(c) ==
    /\ ~Active(c)
    /\ Len(eLog) < MaxCalls
    /\ LET others == {d \in Callers \ {c} : Active(d)}
           ov == others # {}
       IN  /\ eLog' = Append([i \in 1..Len(eLog) |->
                                 IF \E d \in others : eCall[d].idx = i
                                 THEN [eLog[i] EXCEPT !.ov = TRUE] ELSE eLog[i]],
                             NewCall(ov))
           /\ eCall' = [eCall EXCEPT ![c] =
                           [IdleCall EXCEPT !.pc = "exists", !.idx = Len(eLog) + 1]]
    /\ UNCHANGED <<envDir, envContent, yamlVer, yamlPresent, notEnv>>

\* line 179, first operand: env_path.exists()
CheckExists(c) ==
    /\ eCall[c].pc = "exists"
    /\ eCall' = [eCall EXCEPT ![c].pc = IF env_exists(envDir) THEN "validate" ELSE "yaml"]
    /\ UNCHANGED <<envDir, envContent, yamlVer, yamlPresent, eLog, notEnv>>

\* line 179-183, second operand: self._validate_env(env_path); the existing
\* environment is returned without building
FastPath(c) ==
    /\ eCall[c].pc = "validate"
    /\ IF validate_env(envDir)
       THEN EndCall(c, "returned", [Report(eLog[eCall[c].idx], 100) EXCEPT !.fast = TRUE,
                                        !.dir = envDir, !.content = envContent])
       ELSE /\ eCall' = [eCall EXCEPT ![c].pc = "yaml"]
            /\ UNCHANGED eLog
    /\ UNCHANGED <<envDir, envContent, yamlVer, yamlPresent, notEnv>>

\* line 186: get_env_yaml_path raises FileNotFoundError when the file is missing
GetEnvYamlPath(c) ==
    /\ eCall[c].pc = "yaml"
    /\ IF yamlPresent
       THEN /\ eCall' = [eCall EXCEPT ![c].pc = "rm"]
            /\ UNCHANGED eLog
       ELSE EndCall(c, "raised", [eLog[eCall[c].idx] EXCEPT !.err = "FileNotFoundError",
                                      !.dir = envDir, !.content = envContent])
    /\ UNCHANGED <<envDir, envContent, yamlVer, yamlPresent, notEnv>>

\* _safe_rmtree: shutil.rmtree either removes the tree, or raises out of the
\* onerror handler and leaves the directory (whole or in part)
RmtreeOutcomes(dir) ==
    {[ok |-> TRUE, dir |-> "absent"], [ok |-> FALSE, dir |-> dir], [ok |-> FALSE, dir |-> "partial"]}

\* lines 189-191: an existing (invalid) directory is removed before building
RemoveInvalid(c) ==
    /\ eCall[c].pc = "rm"
    /\ IF env_exists(envDir)
       THEN \E r \in RmtreeOutcomes(envDir) :
               /\ envDir' = r.dir
               /\ IF r.ok
                  THEN /\ eCall' = [eCall EXCEPT ![c].pc = "create"]
                       /\ UNCHANGED eLog
                  ELSE EndCall(c, "raised", [eLog[eCall[c].idx] EXCEPT !.err = "RmtreeError",
                                                 !.dir = r.dir, !.content = envContent])
       ELSE /\ eCall' = [eCall EXCEPT ![c].pc = "create"]
            /\ UNCHANGED <<envDir, eLog>>
    /\ UNCHANGED <<envContent, yamlVer, yamlPresent, notEnv>>

\* _create_env, lines 218-242: subprocess.Popen starts micromamba, or raises
CreateEnvPopen(c, started) ==
    /\ eCall[c].pc = "create"
    /\ IF started
       THEN /\ eCall' = [eCall EXCEPT ![c].pc = "reading", ![c].tool = "started",
                                      ![c].toolYaml = yamlVer]
            /\ eLog' = [eLog EXCEPT ![eCall[c].idx] =
                           [Report(@, 10) EXCEPT !.inv = @ + 1, !.inCreate = TRUE]]
       ELSE /\ eCall' = [eCall EXCEPT ![c].pc = "cleanup", ![c].err = "PopenError"]
            /\ eLog' = [eLog EXCEPT ![eCall[c].idx] =
                           [Report(@, 10) EXCEPT !.inCreate = TRUE]]
    /\ UNCHANGED <<envDir, envContent, yamlVer, yamlPresent, notEnv>>

\* What micromamba prints while it works: nothing, or one more line, which
\* the loop of lines 245-252 keeps as last_line
ReadLines(last_line) == {last_line} \cup {n \in {last_line + 1} : n <= MaxLines}

\* micromamba creates the prefix directory and writes packages into it
ToolWrite(c) ==
    /\ eCall[c].tool = "started"
    /\ \E n \in ReadLines(eCall[c].last_line) :
          /\ eCall' = [eCall EXCEPT ![c].tool = "wrote", ![c].last_line = n]
          /\ eLog' = [eLog EXCEPT ![eCall[c].idx] = ReportLine(@, eCall[c].last_line, n)]
    /\ envDir' = IF envDir = "absent" THEN "partial" ELSE envDir
    /\ UNCHANGED <<envContent, yamlVer, yamlPresent, notEnv>>

\* micromamba installs the interpreter
ToolPython(c) ==
    /\ eCall[c].tool = "wrote"
    /\ \E n \in ReadLines(eCall[c].last_line) :
          /\ eCall' = [eCall EXCEPT ![c].tool = "python", ![c].last_line = n]
          /\ eLog' = [eLog EXCEPT ![eCall[c].idx] = ReportLine(@, eCall[c].last_line, n)]
    /\ envDir' = "valid"
    /\ envContent' = eCall[c].toolYaml
    /\ UNCHANGED <<yamlVer, yamlPresent, notEnv>>

\* micromamba exits: 0 once the interpreter is installed, non-zero at any point
ToolExit(c, code) ==
    /\ \/ code = 0 /\ eCall[c].tool = "python"
       \/ code = 1 /\ eCall[c].tool \in {"started", "wrote", "python"}
    /\ eCall' = [eCall EXCEPT ![c].tool = IF code = 0 THEN "exit0" ELSE "exitN"]
    /\ UNCHANGED <<envDir, envContent, yamlVer, yamlPresent, eLog, notEnv>>

\* What the RuntimeError raised for a non-zero exit carries: "Last output: {last_line}"
BuildErrorLine(last_line) == last_line

\* lines 254-269: process.wait() and the return code check
CreateEnvWait(c) ==
    /\ eCall[c].pc = "reading"
    /\ eCall[c].tool \in {"exit0", "exitN"}
    /\ IF eCall[c].tool = "exit0"
       THEN EndCall(c, "returned", [Report(Report(eLog[eCall[c].idx], 80), 100)
                                        EXCEPT !.dir = envDir, !.content = envContent])
       ELSE /\ eCall' = [eCall EXCEPT ![c].pc = "cleanup", ![c].err = "BuildError"]
            /\ UNCHANGED eLog
    /\ UNCHANGED <<envDir, envContent, yamlVer, yamlPresent, notEnv>>

\* lines 271-276: the except clause removes the directory, then raises
\* RuntimeError(f"Failed to create environment ...: {e}"); a failing rmtree
\* raises in its place
CreateEnvCleanup(c) ==
    /\ eCall[c].pc = "cleanup"
    /\ LET rec == eLog[eCall[c].idx]
           wrapped == [rec EXCEPT !.err = eCall[c].err,
                                  !.errLine = IF eCall[c].err = "BuildError"
                                              THEN BuildErrorLine(eCall[c].last_line) ELSE 0]
       IN  IF env_exists(envDir)
           THEN \E r \in RmtreeOutcomes(envDir) :
                   /\ envDir' = r.dir
                   /\ EndCall(c, "raised",
                              IF r.ok THEN [wrapped EXCEPT !.dir = r.dir, !.content = envContent]
                              ELSE [rec EXCEPT !.err = "RmtreeError", !.dir = r.dir,
                                               !.content = envContent])
           ELSE /\ EndCall(c, "raised", [wrapped EXCEPT !.dir = envDir, !.content = envContent])
                /\ UNCHANGED envDir
    /\ UNCHANGED <<envContent, yamlVer, yamlPresent, notEnv>>

\* The content of environment.yml changes (a new release of the application)
ChangeSpec ==
    /\ yamlVer < MaxYamlVer
    /\ yamlVer' = yamlVer + 1
    /\ UNCHANGED <<envDir, envContent, yamlPresent, eCall, eLog, notEnv>>

EnvInit ==
    /\ envDir \in {"absent", "partial", "valid"}
    /\ envContent = IF envDir = "valid" THEN 1 ELSE 0
    /\ yamlVer = 1
    /\ yamlPresent \in BOOLEAN
    /\ eCall = [c \in Callers |-> IdleCall]
    /\ eLog = <<>>

EnvQuiet ==
    /\ envDir = "absent"
    /\ envContent = 0
    /\ yamlVer = 1
    /\ yamlPresent = TRUE
    /\ eCall = [c \in Callers |-> IdleCall]
    /\ eLog = <<>>

----------------------------------------------------------------------------
(***************************************************************************)
(* Inference runner: MegaDetectorRunner.run_detection.  The repository has *)
(* two implementations: app/ml/detection.py ("detection", the one the      *)
(* deployment worker imports) and app/ml/detection/megadetector_runner.py  *)
(* ("megadetector_runner").                                                *)
(***************************************************************************)

NumRunJobs == 1
MaxImages == 2
MaxStderr == 2
MaxStdout == 2
PipeCapacity == 1

RunJobs == 1..NumRunJobs
Impls == {"detection", "megadetector_runner"}

\* The path of a job's result file: detection.py uses the fixed name
\* detection_results.json next to the list file, megadetector_runner.py a
\* fresh mkstemp name
OutPath(impl, j) == IF impl = "detection" THEN 0 ELSE j
OutPaths == {0} \cup RunJobs

NoError == [kind |-> "none", cmd |-> FALSE, stdout |-> -1, stderr |-> <<-1>>]

\* made, envCall and wrote are history: a temporary file was created,
\* get_or_create_env was called, the child wrote its result file; got is the
\* content of the result file that was parsed and returned, from the job
\* whose run wrote that content; prog is the
\* sequence of fractions passed to progress_callback for stderr lines
IdleJob == [pc |-> "idle", n |-> 0, list |-> FALSE, made |-> FALSE, envCall |-> FALSE,
            wrote |-> FALSE, got |-> "none", from |-> 0, child |-> "none", prog |-> <<>>,
            serr |-> <<>>, read |-> 0, sout |-> 0, drained |-> 0, code |-> -1,
            err |-> NoError, res |-> -1]

\* The finally clauses of run_detection: which temporary files are unlinked
\* when the call leaves at position pc
UnlinksList(impl, pc) ==
    IF impl = "detection" THEN pc \in {"popen", "communicate"}
    ELSE pc \in {"mkout", "popen", "reading", "communicate"}

UnlinksOutput(impl, pc) ==
    IF impl = "detection" THEN pc \in {"popen", "communicate"}
    ELSE pc \in {"popen", "reading", "communicate"}

\* run_detection returns (out = "returned") or raises (out = "raised")
RunEnd(j, out, err, res) ==
    LET pc == rJob[j].pc IN
    /\ rJob' = [rJob EXCEPT ![j].pc = out, ![j].err = err, ![j].res = res,
                            ![j].got = IF out = "returned" /\ UnlinksOutput(rImpl, pc)
                                       THEN rOut[OutPath(rImpl, j)] ELSE @,
                            ![j].from = IF out = "returned" /\ UnlinksOutput(rImpl, pc)
                                        THEN rOwner[OutPath(rImpl, j)] ELSE @,
                            ![j].list = IF UnlinksList(rImpl, pc) THEN FALSE ELSE @]
    /\ rOut' = IF UnlinksOutput(rImpl, pc)
               THEN [rOut EXCEPT ![OutPath(rImpl, j)] = "absent"]
               ELSE rOut
    /\ rOwner' = IF UnlinksOutput(rImpl, pc)
                 THEN [rOwner EXCEPT ![OutPath(rImpl, j)] = 0]
                 ELSE rOwner

Raise(j, kind) == RunEnd(j, "raised", [NoError EXCEPT !.kind = kind], -1)

\* run_detection(manifest, image_paths, ...) is called with n image paths
RunCall(j, n) ==
    /\ rJob[j].pc = "idle"
    /\ rJob' = [rJob EXCEPT ![j] = [IdleJob EXCEPT !.pc = "setup", !.n = n]]
    /\ UNCHANGED <<rImpl, rOut, rOwner, notRun>>

\* megadetector_runner.py lines 78-96: the empty list returns at once; else
\* the environment is got or created and the interpreter and weights located.
\* detection.py lines 64-77: weights and interpreter are located.
Setup(j, ok) ==
    /\ rJob[j].pc = "setup"
    /\ IF rImpl = "megadetector_runner" /\ rJob[j].n = 0
       THEN RunEnd(j, "returned", NoError, 0)
       ELSE IF ok
       THEN /\ rJob' = [rJob EXCEPT ![j].pc = "mklist",
                                    ![j].envCall = (rImpl = "megadetector_runner")]
            /\ UNCHANGED <<rOut, rOwner>>
       ELSE Raise(j, "SetupError")
    /\ UNCHANGED <<rImpl, notRun>>

\* _create_file_list (mkstemp, then the paths are written) /
\* NamedTemporaryFile(delete=False): the file exists before the write, which
\* may raise
CreateFileList(j, written) ==
    /\ rJob[j].pc = "mklist"
    /\ IF written
       THEN /\ rJob' = [rJob EXCEPT ![j].list = TRUE, ![j].made = TRUE,
                           ![j].pc = IF rImpl = "detection" THEN "popen" ELSE "mkout"]
            /\ UNCHANGED <<rOut, rOwner>>
       ELSE /\ rJob' = [rJob EXCEPT ![j].list = TRUE, ![j].made = TRUE, ![j].pc = "raised",
                                    ![j].err = [NoError EXCEPT !.kind = "WriteError"]]
            /\ UNCHANGED <<rOut, rOwner>>
    /\ UNCHANGED <<rImpl, notRun>>

\* megadetector_runner.py lines 104-179: inside the try, the callback is
\* called and _run_megadetector_cli creates the result file with mkstemp
PrepareOutput(j, cbOk) ==
    /\ rJob[j].pc = "mkout"
    /\ IF cbOk
       THEN /\ rJob' = [rJob EXCEPT ![j].pc = "popen", ![j].made = TRUE]
            /\ rOut' = [rOut EXCEPT ![OutPath(rImpl, j)] = "empty"]
            /\ rOwner' = [rOwner EXCEPT ![OutPath(rImpl, j)] = j]
       ELSE Raise(j, "CallbackError")
    /\ UNCHANGED <<rImpl, notRun>>

\* subprocess.Popen(cmd, stdout=PIPE, stderr=PIPE)
Popen(j, ok) ==
    /\ rJob[j].pc = "popen"
    /\ IF ok
       THEN /\ rJob' = [rJob EXCEPT ![j].child = "running",
                           ![j].pc = IF rImpl = "detection" THEN "communicate" ELSE "reading"]
            /\ UNCHANGED <<rOut, rOwner>>
       ELSE Raise(j, "PopenError")
    /\ UNCHANGED <<rImpl, notRun>>

\* The child prints a line on stderr: 0 is any text, x > 0 is "Processing image x/n"
ChildStderr(j, x) ==
    /\ rJob[j].child = "running"
    /\ Len(rJob[j].serr) < MaxStderr
    /\ x \in 0..rJob[j].n
    /\ rJob' = [rJob EXCEPT ![j].serr = Append(@, x)]
    /\ UNCHANGED <<rImpl, rOut, rOwner, notRun>>

\* The child prints a line on stdout (stdout=subprocess.PIPE): the write
\* returns when the pipe has room for it; with PipeCapacity lines unread in
\* the pipe the child blocks in the write
ChildStdout(j) ==
    /\ rJob[j].child = "running"
    /\ rJob[j].sout < MaxStdout
    /\ rJob' = IF rJob[j].sout - rJob[j].drained < PipeCapacity
               THEN [rJob EXCEPT ![j].sout = @ + 1]
               ELSE [rJob EXCEPT ![j].child = "blocked"]
    /\ UNCHANGED <<rImpl, rOut, rOwner, notRun>>

\* process.communicate() reads what is in the stdout pipe; a write the child
\* was blocked in then completes
DrainStdout(j) ==
    /\ rJob[j].pc = "communicate"
    /\ rJob[j].sout > rJob[j].drained \/ rJob[j].child = "blocked"
    /\ rJob' = IF rJob[j].child = "blocked"
               THEN [rJob EXCEPT ![j].drained = rJob[j].sout, ![j].sout = @ + 1,
                                 ![j].child = "running"]
               ELSE [rJob EXCEPT ![j].drained = rJob[j].sout]
    /\ UNCHANGED <<rImpl, rOut, rOwner, notRun>>

\* The child writes its result file: the results of job j, or something unparseable
ChildWriteOutput(j, good) ==
    /\ rJob[j].child = "running"
    /\ rOut' = [rOut EXCEPT ![OutPath(rImpl, j)] = IF good THEN "results" ELSE "garbage"]
    /\ rOwner' = [rOwner EXCEPT ![OutPath(rImpl, j)] = j]
    /\ rJob' = [rJob EXCEPT ![j].wrote = TRUE]
    /\ UNCHANGED <<rImpl, notRun>>

\* The child exits
ChildExit(j, code) ==
    /\ rJob[j].child = "running"
    /\ rJob' = [rJob EXCEPT ![j].child = "exited", ![j].code = code]
    /\ UNCHANGED <<rImpl, rOut, rOwner, notRun>>

\* megadetector_runner.py line 224: 0.15 + (processed / total_images) * 0.80,
\* as the exact fraction <<numerator, denominator>>
LineProgress(processed, total_images) ==
    <<15 * total_images + 80 * processed, 100 * total_images>>

\* megadetector_runner.py lines 210-230: the loop takes the next stderr line;
\* a progress line calls the callback, which may raise
ReadStderr(j, cbOk) ==
    /\ rJob[j].pc = "reading"
    /\ rJob[j].read < Len(rJob[j].serr)
    /\ IF rJob[j].serr[rJob[j].read + 1] = 0 \/ cbOk
       THEN /\ rJob' = [rJob EXCEPT ![j].read = @ + 1,
                           ![j].prog = IF rJob[j].serr[rJob[j].read + 1] = 0 THEN @
                                       ELSE Append(@, LineProgress(rJob[j].serr[rJob[j].read + 1],
                                                                   rJob[j].n))]
            /\ UNCHANGED <<rOut, rOwner>>
       ELSE Raise(j, "CallbackError")
    /\ UNCHANGED <<rImpl, notRun>>

\* megadetector_runner.py: readline returns "" once the child closed stderr
StderrEof(j) ==
    /\ rJob[j].pc = "reading"
    /\ rJob[j].child = "exited"
    /\ rJob[j].read = Len(rJob[j].serr)
    /\ rJob' = [rJob EXCEPT ![j].pc = "communicate"]
    /\ UNCHANGED <<rImpl, rOut, rOwner, notRun>>

\* What process.communicate() returns as stderr: what was not read before
StderrOfCommunicate(serr, read) == SubSeq(serr, read + 1, Len(serr))

\* The RuntimeError raised for a non-zero return code:
\*   detection.py lines 118-123: the return code and stderr
\*   megadetector_runner.py lines 235-241: the command, stdout and stderr
ExecutionError(impl, sout, stderrGot) ==
    IF impl = "detection"
    THEN [kind |-> "ExecutionError", cmd |-> FALSE, stdout |-> -1, stderr |-> stderrGot]
    ELSE [kind |-> "ExecutionError", cmd |-> TRUE, stdout |-> sout, stderr |-> stderrGot]

\* stdout, stderr = process.communicate(), the return code check, the result
\* file is read and parsed, the last callback
Communicate(j, cbOk) ==
    /\ rJob[j].pc = "communicate"
    /\ rJob[j].child = "exited"
    /\ LET stderrGot == StderrOfCommunicate(rJob[j].serr, rJob[j].read)
           file == rOut[OutPath(rImpl, j)]
       IN  IF rJob[j].code # 0
           THEN /\ RunEnd(j, "raised", ExecutionError(rImpl, rJob[j].sout, stderrGot), -1)
           ELSE IF file = "absent" THEN Raise(j, "MissingOutput")
           ELSE IF file \notin {"results", "foreign"} THEN Raise(j, "ParseError")
           ELSE IF ~cbOk THEN Raise(j, "CallbackError")
           ELSE RunEnd(j, "returned", NoError, rJob[j].n)
    /\ UNCHANGED <<rImpl, notRun>>

\* A name made by mkstemp is new; at the fixed name detection_results.json
\* of detection.py there may be the result file of another run
RunInit ==
    /\ rImpl \in Impls
    /\ rJob = [j \in RunJobs |-> IdleJob]
    /\ \E f \in {"absent", "foreign"} :
          /\ f = "foreign" => rImpl = "detection"
          /\ rOut = [p \in OutPaths |-> IF p = OutPath("detection", 1) THEN f ELSE "absent"]
    /\ rOwner = [p \in OutPaths |-> 0]

RunQuiet ==
    /\ rImpl = "detection"
    /\ rJob = [j \in RunJobs |-> IdleJob]
    /\ rOut = [p \in OutPaths |-> "absent"]
    /\ rOwner = [p \in OutPaths |-> 0]

\* MegaDetectorRunner.validate_environment (megadetector_runner.py only): the
\* exceptions its callees raise are all subclasses of Exception: RuntimeError
\* and FileNotFoundError of get_or_create_env and get_python, the OSError of a
\* failing rmtree or of subprocess.run, and subprocess.TimeoutExpired

Catches_RuntimeErrorOnly(kind) == kind = "RuntimeError"

\* except Exception as e (line 290)
Catches(kind) == kind \in {"RuntimeError", "FileNotFoundError", "OSError", "TimeoutExpired"}

\* An exception is raised inside the try of lines 265-288
ValRaise(kind) ==
    /\ vErr' = kind
    /\ IF Catches(kind)
       THEN vPc' = "returned" /\ vRet' = FALSE
       ELSE vPc' = "raised" /\ UNCHANGED vRet

\* validate_environment(manifest) is called
ValidateEnvironment ==
    /\ rImpl = "megadetector_runner"
    /\ vPc = "idle"
    /\ vPc' = "env"
    /\ UNCHANGED <<vErr, vRet, notVal>>

\* line 266: self.env_manager.get_or_create_env(manifest)
ValGetOrCreateEnv(outcome) ==
    /\ vPc = "env"
    /\ IF outcome = "ok"
       THEN vPc' = "python" /\ UNCHANGED <<vErr, vRet>>
       ELSE ValRaise(outcome)
    /\ UNCHANGED notVal

\* line 267: self.env_manager.get_python(env_path.name)
ValGetPython(outcome) ==
    /\ vPc = "python"
    /\ IF outcome = "ok"
       THEN vPc' = "run" /\ UNCHANGED <<vErr, vRet>>
       ELSE ValRaise(outcome)
    /\ UNCHANGED notVal

\* lines 276-288: subprocess.run(cmd, capture_output=True, text=True,
\* timeout=10) and the return code check
ValSubprocessRun(outcome) ==
    /\ vPc = "run"
    /\ IF outcome \in {"exit0", "exitN"}
       THEN /\ vPc' = "returned"
            /\ vRet' = (outcome = "exit0")
            /\ vErr' = outcome
       ELSE ValRaise(outcome)
    /\ UNCHANGED notVal

ValInit ==
    /\ vPc = "idle"
    /\ vErr = "none"
    /\ vRet = FALSE

ValQuiet == ValInit

----------------------------------------------------------------------------
(***************************************************************************)
(* Repository downloader: HuggingFaceRepoDownloader in hf_downloader.py.   *)
(* Sizes are counted in chunks.  A local file is its size, or Absent.      *)
(***************************************************************************)

NumFiles == 2
MaxSize == 2
PoolSize == 2
MaxInvocations == 2

Files == 1..NumFiles
Absent == 0 - 1

RECURSIVE SumOver(_, _)
SumOver(f, S) ==
    IF S = {} THEN 0
    ELSE LET x == CHOOSE y \in S : TRUE IN f[x] + SumOver(f, S \ {x})

Unlocked == 0

\* A pool thread is inside download_file
Running(f) == dFile[f].st \in {"skipped", "writing"}

\* The fraction of the periodic report, line 316:
\* 0.05 + (self.downloaded_bytes / total_size) * 0.9
OverallProgress(downloaded, total) == <<5 * total + 90 * downloaded, 100 * total>>

LocalStates == {Absent} \cup (0..MaxSize)

\* One file of the repository: its remote size, the size get_repo_info
\* recorded, the local file (now and before the call), and what download_file
\* did for it
NewFile(remote, local) ==
    [remote |-> remote, size |-> 0, local |-> local, st |-> "none", collected |-> FALSE,
     local0 |-> local, requested |-> FALSE, opened |-> FALSE, net |-> 0,
     upc |-> "none", n |-> 0, tmp |-> 0]

\* The size get_repo_info records for the files (lines 115-134): 0 for a file
\* whose size could not be fetched
RecordedSizes(known) ==
    [f \in DOMAIN dFile |-> IF f \in known THEN dFile[f].remote ELSE 0]

\* download_repo lines 253-285, on a downloader that is not inside
\* download_repo: 0.0 is reported, get_repo_info lists the files, the counters
\* of lines 261-263 are set, 0.05 is reported, the pool is made with
\* max_workers=self.max_workers (line 280) and every file is submitted to it.
\* A failing listing, or the ValueError of a pool with max_workers <= 0, is
\* caught at line 345: 0.0 is reported and False is returned.
DownloadRepo(listed, known) ==
    /\ dPc \in {"idle", "returned"}
    /\ dRuns < MaxInvocations
    /\ dRuns' = dRuns + 1
    /\ IF listed /\ max_workers >= 1
       THEN /\ dFile' = [f \in DOMAIN dFile |->
                  [NewFile(dFile[f].remote, dFile[f].local)
                       EXCEPT !.size = RecordedSizes(known)[f], !.st = "submitted"]]
            /\ total_bytes' = SumOver(RecordedSizes(known), DOMAIN dFile)
            /\ downloaded_bytes' = 0
            /\ failed_downloads' = 0
            /\ passed' = 0
            /\ executor' = max_workers
            /\ dPc' = "polling"
            /\ dProg' = <<5, 100>>
            /\ UNCHANGED dRet
       ELSE /\ dPc' = "returned"
            /\ dRet' = FALSE
            /\ dProg' = <<0, 1>>
            /\ total_bytes' = IF listed THEN SumOver(RecordedSizes(known), DOMAIN dFile)
                              ELSE total_bytes
            /\ downloaded_bytes' = IF listed THEN 0 ELSE downloaded_bytes
            /\ UNCHANGED <<dFile, failed_downloads, passed, executor>>
    /\ UNCHANGED <<lock, notDl>>

\* The skip test of download_file, lines 203-207
SkipExisting(local, size) == local # Absent /\ local = size

\* download_file lines 195-216, run by a free pool thread: an existing file of
\* the recorded size is skipped and its size passed to update_progress; else
\* the request is made and the destination itself opened with "wb", which
\* creates or truncates it; a failure unlinks the file (228-232)
DownloadFileBegin(f, ok) ==
    /\ dPc = "polling"
    /\ dFile[f].st = "submitted"
    /\ Cardinality({g \in DOMAIN dFile : Running(g)}) < executor
    /\ IF SkipExisting(dFile[f].local, dFile[f].size)
       THEN /\ dFile' = [dFile EXCEPT ![f].st = "skipped", ![f].upc = "call",
                                      ![f].n = dFile[f].size]
            /\ passed' = passed + dFile[f].size
       ELSE IF ok
       THEN /\ dFile' = [dFile EXCEPT ![f].st = "writing", ![f].local = 0,
                                      ![f].requested = TRUE, ![f].opened = TRUE]
            /\ UNCHANGED passed
       ELSE /\ dFile' = [dFile EXCEPT ![f].st = "failed", ![f].local = Absent,
                                      ![f].requested = TRUE]
            /\ UNCHANGED passed
    /\ UNCHANGED <<dPc, total_bytes, downloaded_bytes, failed_downloads, dRet, lock, dProg, executor, dRuns, notDl>>

\* download_file lines 217-222: one chunk is received, written to the
\* destination and passed to update_progress
DownloadChunk(f) ==
    /\ dFile[f].st = "writing"
    /\ dFile[f].upc = "none"
    /\ dFile[f].local < dFile[f].remote
    /\ dFile' = [dFile EXCEPT ![f].local = @ + 1, ![f].net = @ + 1,
                              ![f].upc = "call", ![f].n = 1]
    /\ passed' = passed + 1
    /\ UNCHANGED <<dPc, total_bytes, downloaded_bytes, failed_downloads, dRet, lock, dProg, executor, dRuns, notDl>>

Acquirable_NoLock(holder) == TRUE

\* with self.lock (line 145): the lock can be taken when no thread holds it
Acquirable(holder) == holder = Unlocked

\* update_progress lines 145-146, first half: the lock is taken and
\* self.downloaded_bytes is loaded
UpdateProgressLoad(f) ==
    /\ dFile[f].upc = "call"
    /\ Acquirable(lock)
    /\ lock' = f
    /\ dFile' = [dFile EXCEPT ![f].upc = "locked", ![f].tmp = downloaded_bytes]
    /\ UNCHANGED <<dPc, total_bytes, downloaded_bytes, failed_downloads, dRet, passed, dProg, executor, dRuns, notDl>>

\* update_progress lines 145-146, second half: the sum is stored and the lock
\* released; the skip path then returns True (line 207)
UpdateProgressStore(f) ==
    /\ dFile[f].upc = "locked"
    /\ downloaded_bytes' = dFile[f].tmp + dFile[f].n
    /\ lock' = IF lock = f THEN Unlocked ELSE lock
    /\ dFile' = [dFile EXCEPT ![f].upc = "none", ![f].tmp = 0, ![f].n = 0,
                              ![f].st = IF @ = "skipped" THEN "ok" ELSE @]
    /\ UNCHANGED <<dPc, total_bytes, failed_downloads, dRet, passed, dProg, executor, dRuns, notDl>>

\* download_file lines 224-225: the stream ended, True is returned
StreamEnded(f) ==
    /\ dFile[f].st = "writing"
    /\ dFile[f].upc = "none"
    /\ dFile[f].local = dFile[f].remote
    /\ dFile' = [dFile EXCEPT ![f].st = "ok"]
    /\ UNCHANGED <<dPc, total_bytes, downloaded_bytes, failed_downloads, dRet, lock, passed, dProg,
                   executor, dRuns>>

DownloadFileEnd(f) == StreamEnded(f) /\ UNCHANGED notDl

\* download_file lines 227-232: the transfer raises, the partial file is
\* unlinked, False is returned
DownloadFileFail(f) ==
    /\ dFile[f].st = "writing"
    /\ dFile[f].upc = "none"
    /\ dFile' = [dFile EXCEPT ![f].st = "failed", ![f].local = Absent]
    /\ UNCHANGED <<dPc, total_bytes, downloaded_bytes, failed_downloads, dRet, lock, passed, dProg,
                   executor, dRuns, notDl>>

\* The report of lines 311-329, made when total_size > 0
ReportOverall == IF total_bytes > 0 THEN OverallProgress(downloaded_bytes, total_bytes) ELSE dProg

\* download_repo lines 290-329: the poll loop pops a finished future, counts
\* it and reports the progress
Collect(f) ==
    /\ dPc = "polling"
    /\ dFile[f].st \in {"ok", "failed"}
    /\ ~dFile[f].collected
    /\ dFile' = [dFile EXCEPT ![f].collected = TRUE]
    /\ failed_downloads' = failed_downloads + (IF dFile[f].st = "failed" THEN 1 ELSE 0)
    /\ dProg' = ReportOverall
    /\ UNCHANGED <<dPc, total_bytes, downloaded_bytes, dRet, lock, passed, executor, dRuns, notDl>>

\* download_repo lines 309-329: an iteration of the poll loop in which no
\* future finished and the update interval has passed
PeriodicReport ==
    /\ dPc = "polling"
    /\ total_bytes > 0
    /\ dProg' = ReportOverall
    /\ dProg' # dProg
    /\ UNCHANGED <<dPc, dFile, total_bytes, downloaded_bytes, failed_downloads, dRet, lock, passed,
                   executor, dRuns, notDl>>

\* download_repo lines 337-343: no future is left, 1.0 is reported and the
\* result is returned
DownloadRepoReturn ==
    /\ dPc = "polling"
    /\ \A f \in DOMAIN dFile : dFile[f].collected
    /\ dPc' = "returned"
    /\ dRet' = (failed_downloads = 0)
    /\ dProg' = <<1, 1>>
    /\ executor' = 0
    /\ UNCHANGED <<dFile, total_bytes, downloaded_bytes, failed_downloads, lock, passed, dRuns, notDl>>

\* __init__ lines 61-64, and what the local directory holds beforehand
DlInit ==
    /\ dPc = "idle"
    /\ dFile \in [Files -> {NewFile(r, l) : r \in 1..MaxSize, l \in LocalStates}]
    /\ total_bytes = 0
    /\ downloaded_bytes = 0
    /\ failed_downloads = 0
    /\ dRet = FALSE
    /\ lock = Unlocked
    /\ passed = 0
    /\ dProg = <<0, 1>>
    /\ executor = 0
    /\ dRuns = 0

DlQuiet ==
    /\ dPc = "idle"
    /\ dFile = [f \in Files |-> NewFile(1, Absent)]
    /\ total_bytes = 0
    /\ downloaded_bytes = 0
    /\ failed_downloads = 0
    /\ dRet = FALSE
    /\ lock = Unlocked
    /\ passed = 0
    /\ dProg = <<0, 1>>
    /\ executor = 0
    /\ dRuns = 0

----------------------------------------------------------------------------
(***************************************************************************)
(* Adaptive worker scaling: measure_download_speed and adjust_workers of   *)
(* HuggingFaceRepoDownloader.  Speeds are positive integers; the float     *)
(* comparisons of adjust_workers are computed exactly on integers.         *)
(***************************************************************************)

min_workers == 1
max_workers_limit == 16
max_speed_samples == 10
adjustment_interval == 10
default_max_workers == 4

MaxSpeed == 2
MaxTime == 20

Speeds == 1..MaxSpeed

\* The values the constructor is given for max_workers: the default, and the
\* values at and next to the two limits
CtorChoices ==
    {default_max_workers,
     min_workers - 1, min_workers, min_workers + 1,
     max_workers_limit - 1, max_workers_limit, max_workers_limit + 1}

RECURSIVE SeqSum(_)
SeqSum(q) == IF q = <<>> THEN 0 ELSE Head(q) + SeqSum(Tail(q))

LastThree(q) == SubSeq(q, Len(q) - 2, Len(q))

\* recent_speed < avg_speed * 0.7, with avg = sum / len and recent = sum3 / 3
RecentSlow(q) == 10 * Len(q) * SeqSum(LastThree(q)) < 21 * SeqSum(q)

\* recent_speed > avg_speed * 1.2
RecentFast(q) == 5 * Len(q) * SeqSum(LastThree(q)) > 18 * SeqSum(q)

Max2(a, b) == IF a >= b THEN a ELSE b
Min2(a, b) == IF a <= b THEN a ELSE b

\* adjust_workers lines 173-180: the new value of self.max_workers
AdjustedWorkers_NoFloor(w, q) ==
    IF RecentSlow(q) THEN w - 1
    ELSE IF RecentFast(q) THEN w + 1
    ELSE w
AdjustedWorkers(w, q) ==
    IF RecentSlow(q) /\ w > min_workers THEN Max2(min_workers, w - 1)
    ELSE IF RecentFast(q) /\ w < max_workers_limit THEN Min2(max_workers_limit, w + 1)
    ELSE w

\* measure_download_speed lines 148-157 with bytes_downloaded > 0 and elapsed > 0
RecordSample(speed) ==
    /\ LET q == Append(speed_samples, speed)
       IN  speed_samples' = IF Len(q) > max_speed_samples THEN Tail(q) ELSE q
    /\ aOp' = "sample"
    /\ UNCHANGED <<ctor_max_workers, max_workers, last_adjustment_time, now>>

MeasureDownloadSpeed(speed) == RecordSample(speed) /\ UNCHANGED notAdj

\* adjust_workers lines 159-182
AdjustWorkersBody ==
    /\ IF now - last_adjustment_time < adjustment_interval
       THEN /\ aOp' = "too_soon"
            /\ UNCHANGED <<max_workers, last_adjustment_time>>
       ELSE IF Len(speed_samples) < 3
       THEN /\ aOp' = "too_few"
            /\ UNCHANGED <<max_workers, last_adjustment_time>>
       ELSE /\ max_workers' = AdjustedWorkers(max_workers, speed_samples)
            /\ last_adjustment_time' = now
            /\ aOp' = "adjusted"
    /\ UNCHANGED <<ctor_max_workers, speed_samples, now>>

AdjustWorkers == AdjustWorkersBody /\ UNCHANGED notAdj

\* Time passes, half an adjustment interval at a time
Tick ==
    /\ now + (adjustment_interval \div 2) <= MaxTime
    /\ now' = now + (adjustment_interval \div 2)
    /\ aOp' = "tick"
    /\ UNCHANGED <<ctor_max_workers, max_workers, speed_samples, last_adjustment_time, notAdj>>

\* __init__ lines 45-58; time.time() is far more than adjustment_interval
\* after last_adjustment_time = 0.0
AdjInit ==
    /\ ctor_max_workers \in CtorChoices
    /\ max_workers = ctor_max_workers
    /\ speed_samples = <<>>
    /\ last_adjustment_time = 0
    /\ now = adjustment_interval
    /\ aOp = "init"

AdjQuiet ==
    /\ ctor_max_workers = default_max_workers
    /\ max_workers = default_max_workers
    /\ speed_samples = <<>>
    /\ last_adjustment_time = 0
    /\ now = adjustment_interval
    /\ aOp = "init"

----------------------------------------------------------------------------
(***************************************************************************)
(* Result storage: save_detection_results of detection_worker.py turns     *)
(* each detection of the inference output into a DetectionCreate (a        *)
(* pydantic model, app/api/schemas/detection.py) and stores it.            *)
(* Confidence and coordinates are counted in steps of 1/Unit.              *)
(***************************************************************************)

Unit == 1

\* Values the inference output can hold: below 0, inside [0,1], above 1
Quantities == (0 - 1)..(Unit + 1)
Categories == 0..4

Detections ==
    [category : Categories, conf : Quantities, bbox : [1..4 -> Quantities]]

\* CATEGORY_MAP.get(category_num, "animal"), detection_worker.py lines 248-252, 286-287
CategoryOf(category_num) ==
    IF category_num = 1 THEN "animal"
    ELSE IF category_num = 2 THEN "person"
    ELSE IF category_num = 3 THEN "vehicle"
    ELSE "animal"

\* DetectionCategory = Literal["animal", "person", "vehicle"]
DetectionCategory == {"animal", "person", "vehicle"}

NoDetection == [st |-> "none", category |-> "none", confidence |-> 0,
                bbox |-> [i \in 1..4 |-> 0]]

\* Field(..., ge=0.0, le=1.0)
Field(v) == 0 <= v /\ v <= Unit

\* DetectionCreate(...): pydantic validates the fields and raises
\* ValidationError, or builds the object with the values it was given
DetectionCreate(category, confidence, bbox) ==
    IF /\ category \in DetectionCategory
       /\ Field(confidence)
       /\ \A i \in 1..4 : Field(bbox[i])
    THEN [st |-> "stored", category |-> category, confidence |-> confidence, bbox |-> bbox]
    ELSE [NoDetection EXCEPT !.st = "ValidationError"]

\* save_detection_results lines 285-306 for one detection: the category is
\* mapped, the DetectionCreate built and, unless that raised, stored
SaveDetection ==
    /\ sOut.st = "none"
    /\ sOut' = DetectionCreate(CategoryOf(sDet.category), sDet.conf, sDet.bbox)
    /\ UNCHANGED <<sDet, notSave>>

\* The loop of line 285 goes on to the next detection of the output
NextDetection(det) ==
    /\ sOut.st = "stored"
    /\ sDet' = det
    /\ sOut' = NoDetection
    /\ UNCHANGED notSave

SaveInit ==
    /\ sDet \in Detections
    /\ sOut = NoDetection

SaveQuiet ==
    /\ sDet = [category |-> 1, conf |-> 0, bbox |-> [i \in 1..4 |-> 0]]
    /\ sOut = NoDetection

----------------------------------------------------------------------------
(***************************************************************************)
(* Specifications                                                          *)
(***************************************************************************)

HubQuiet ==
    /\ HubInit
    /\ tKind = "prepare_env"
    /\ tState = "idle"
    /\ tPc = 1
    /\ tTerm = <<>>
    /\ tStagesOk = 0
    /\ tFail = 0

InitEnv == EnvInit /\ HubQuiet /\ RunQuiet /\ DlQuiet /\ AdjQuiet /\ SaveQuiet /\ ValQuiet

NextEnv ==
    \/ \E c \in Callers : StartCall(c)
    \/ \E c \in Callers : CheckExists(c)
    \/ \E c \in Callers : FastPath(c)
    \/ \E c \in Callers : GetEnvYamlPath(c)
    \/ \E c \in Callers : RemoveInvalid(c)
    \/ \E c \in Callers, started \in BOOLEAN : CreateEnvPopen(c, started)
    \/ \E c \in Callers : ToolWrite(c)
    \/ \E c \in Callers : ToolPython(c)
    \/ \E c \in Callers, code \in 0..1 : ToolExit(c, code)
    \/ \E c \in Callers : CreateEnvWait(c)
    \/ \E c \in Callers : CreateEnvCleanup(c)
    \/ ChangeSpec

SpecEnv == InitEnv /\ [][NextEnv]_vars

InitRun == RunInit /\ ValInit /\ HubQuiet /\ EnvQuiet /\ DlQuiet /\ AdjQuiet /\ SaveQuiet

InitAdj == AdjInit /\ HubQuiet /\ EnvQuiet /\ RunQuiet /\ DlQuiet /\ SaveQuiet /\ ValQuiet

NextAdj ==
    \/ \E speed \in Speeds : MeasureDownloadSpeed(speed)
    \/ AdjustWorkers
    \/ Tick

SpecAdj == InitAdj /\ [][NextAdj]_vars

InitDl == DlInit /\ HubQuiet /\ EnvQuiet /\ RunQuiet /\ AdjQuiet /\ SaveQuiet /\ ValQuiet

NextDl ==
    \/ \E listed \in BOOLEAN, known \in SUBSET Files : DownloadRepo(listed, known)
    \/ \E f \in Files, ok \in BOOLEAN : DownloadFileBegin(f, ok)
    \/ \E f \in Files : DownloadChunk(f)
    \/ \E f \in Files : UpdateProgressLoad(f)
    \/ \E f \in Files : UpdateProgressStore(f)
    \/ PeriodicReport
    \/ \E f \in Files : DownloadFileEnd(f)
    \/ \E f \in Files : DownloadFileFail(f)
    \/ \E f \in Files : Collect(f)
    \/ DownloadRepoReturn

SpecDl == InitDl /\ [][NextDl]_vars

\* A download with adaptive scaling: NumPoolFiles absent files of one chunk
\* each, on a downloader made with max_workers = PoolSize
NumPoolFiles == 6
PoolFiles == 1..NumPoolFiles

\* The speed of a transfer: slow, or fast
PoolSpeeds == {1, MaxSpeed + 1}

\* download_file lines 224-225: measure_download_speed records the sample of
\* the finished transfer, True is returned
DownloadFileEndMeasured(f, speed) ==
    /\ StreamEnded(f)
    /\ RecordSample(speed)
    /\ UNCHANGED <<hubVars, taskVars, envVars, runVars, saveVars, valVars>>

\* download_repo line 332: every iteration of the poll loop calls adjust_workers
PollAdjustWorkers ==
    /\ dPc = "polling"
    /\ AdjustWorkersBody
    /\ UNCHANGED <<dlVars, hubVars, taskVars, envVars, runVars, saveVars, valVars>>

\* The pool threads take the submitted calls from the work queue in the
\* order of submission (line 283)
NextInQueue(f) == \A g \in DOMAIN dFile : g < f => dFile[g].st # "submitted"

\* A downloader made with max_workers = PoolSize or one below min_workers,
\* and a repository of the given files, none of them present locally
PoolInit(files) ==
    /\ dPc = "idle"
    /\ dFile = [f \in files |-> NewFile(1, Absent)]
    /\ total_bytes = 0
    /\ downloaded_bytes = 0
    /\ failed_downloads = 0
    /\ dRet = FALSE
    /\ lock = Unlocked
    /\ passed = 0
    /\ dProg = <<0, 1>>
    /\ executor = 0
    /\ dRuns = 0
    /\ AdjInit
    /\ ctor_max_workers \in {min_workers - 1, PoolSize}
    /\ HubQuiet /\ EnvQuiet /\ RunQuiet /\ SaveQuiet /\ ValQuiet

InitPool == PoolInit(PoolFiles)

\* The steps of the pool threads and of the poll loop
PoolStep ==
    \/ \E f \in DOMAIN dFile : NextInQueue(f) /\ DownloadFileBegin(f, TRUE)
    \/ \E f \in DOMAIN dFile : DownloadChunk(f)
    \/ \E f \in DOMAIN dFile : UpdateProgressLoad(f)
    \/ \E f \in DOMAIN dFile : UpdateProgressStore(f)
    \/ \E f \in DOMAIN dFile, speed \in PoolSpeeds : DownloadFileEndMeasured(f, speed)
    \/ PollAdjustWorkers
    \/ \E f \in DOMAIN dFile : Collect(f)
    \/ DownloadRepoReturn

\* One download_repo call on a new downloader
NextPool ==
    \/ \E listed \in BOOLEAN : dPc = "idle" /\ DownloadRepo(listed, DOMAIN dFile)
    \/ PoolStep

SpecPool == InitPool /\ [][NextPool]_vars

\* The same downloader used for up to MaxInvocations download_repo calls,
\* one after the other
NumReuseFiles == 4
ReuseFiles == 1..NumReuseFiles

InitReuse == PoolInit(ReuseFiles)

NextReuse ==
    \/ \E listed \in BOOLEAN : DownloadRepo(listed, DOMAIN dFile)
    \/ PoolStep

SpecReuse == InitReuse /\ [][NextReuse]_vars

NextRun ==
    \/ \E j \in RunJobs, n \in 0..MaxImages : RunCall(j, n)
    \/ \E j \in RunJobs, ok \in BOOLEAN : Setup(j, ok)
    \/ \E j \in RunJobs, written \in BOOLEAN : CreateFileList(j, written)
    \/ \E j \in RunJobs, cbOk \in BOOLEAN : PrepareOutput(j, cbOk)
    \/ \E j \in RunJobs, ok \in BOOLEAN : Popen(j, ok)
    \/ \E j \in RunJobs, x \in 0..MaxImages : ChildStderr(j, x)
    \/ \E j \in RunJobs : ChildStdout(j)
    \/ \E j \in RunJobs : DrainStdout(j)
    \/ \E j \in RunJobs, good \in BOOLEAN : ChildWriteOutput(j, good)
    \/ \E j \in RunJobs, code \in 0..1 : ChildExit(j, code)
    \/ \E j \in RunJobs, cbOk \in BOOLEAN : ReadStderr(j, cbOk)
    \/ \E j \in RunJobs : StderrEof(j)
    \/ \E j \in RunJobs, cbOk \in BOOLEAN : Communicate(j, cbOk)
    \/ ValidateEnvironment
    \/ \E outcome \in {"ok", "RuntimeError", "FileNotFoundError", "OSError"} :
          ValGetOrCreateEnv(outcome)
    \/ \E outcome \in {"ok", "FileNotFoundError"} : ValGetPython(outcome)
    \/ \E outcome \in {"exit0", "exitN", "TimeoutExpired", "OSError"} :
          ValSubprocessRun(outcome)

SpecRun == InitRun /\ [][NextRun]_vars

\* The thread of run_detection keeps running, and the child, once it has
\* written what it writes, exits
FairnessRun ==
    \A j \in RunJobs :
        /\ WF_vars(\E cbOk \in BOOLEAN : ReadStderr(j, cbOk))
        /\ WF_vars(StderrEof(j))
        /\ WF_vars(DrainStdout(j))
        /\ WF_vars(\E cbOk \in BOOLEAN : Communicate(j, cbOk))
        /\ WF_vars(\E code \in 0..1 : ChildExit(j, code))

FairSpecRun == SpecRun /\ FairnessRun

\* Several run_detection calls at the same time, each in its own thread with
\* its own child, in a temporary directory that holds no result file yet
NumPairJobs == 2
PairJobs == 1..NumPairJobs

InitPair ==
    /\ rImpl \in Impls
    /\ rJob = [j \in PairJobs |-> IdleJob]
    /\ rOut = [p \in {OutPath("detection", j) : j \in PairJobs} \cup PairJobs |-> "absent"]
    /\ rOwner = [p \in DOMAIN rOut |-> 0]
    /\ ValInit /\ HubQuiet /\ EnvQuiet /\ DlQuiet /\ AdjQuiet /\ SaveQuiet

NextPair ==
    \/ \E j \in PairJobs, n \in 1..MaxImages : RunCall(j, n)
    \/ \E j \in PairJobs : Setup(j, TRUE)
    \/ \E j \in PairJobs : CreateFileList(j, TRUE)
    \/ \E j \in PairJobs : PrepareOutput(j, TRUE)
    \/ \E j \in PairJobs : Popen(j, TRUE)
    \/ \E j \in PairJobs, good \in BOOLEAN : ChildWriteOutput(j, good)
    \/ \E j \in PairJobs, code \in 0..1 : ChildExit(j, code)
    \/ \E j \in PairJobs : StderrEof(j)
    \/ \E j \in PairJobs : Communicate(j, TRUE)

SpecPair == InitPair /\ [][NextPair]_vars

\* validate_environment with the get_or_create_env call it makes, on a
\* machine where nothing else uses the environment manager
ValCaller == CHOOSE c \in Callers : TRUE

\* What get_or_create_env hands to validate_environment: the path, or the
\* exception: FileNotFoundError of line 186, the OSError of the rmtree of
\* line 190, or the RuntimeError of line 276
EnvOutcome(call, rec) ==
    IF call.pc = "returned" THEN "ok"
    ELSE IF rec.err = "FileNotFoundError" THEN "FileNotFoundError"
    ELSE IF rec.err = "RmtreeError" THEN "OSError"
    ELSE "RuntimeError"

InitVal ==
    /\ EnvInit
    /\ ValInit
    /\ rImpl = "megadetector_runner"
    /\ rJob = [j \in RunJobs |-> IdleJob]
    /\ rOut = [p \in OutPaths |-> "absent"]
    /\ rOwner = [p \in OutPaths |-> 0]
    /\ HubQuiet /\ DlQuiet /\ AdjQuiet /\ SaveQuiet

NextVal ==
    \/ ValidateEnvironment
    \/ vPc = "env" /\ eCall[ValCaller].pc = "idle" /\ StartCall(ValCaller)
    \/ CheckExists(ValCaller)
    \/ FastPath(ValCaller)
    \/ GetEnvYamlPath(ValCaller)
    \/ RemoveInvalid(ValCaller)
    \/ \E started \in BOOLEAN : CreateEnvPopen(ValCaller, started)
    \/ ToolWrite(ValCaller)
    \/ ToolPython(ValCaller)
    \/ \E code \in 0..1 : ToolExit(ValCaller, code)
    \/ CreateEnvWait(ValCaller)
    \/ CreateEnvCleanup(ValCaller)
    \/ /\ eCall[ValCaller].pc \in {"returned", "raised"}
       /\ ValGetOrCreateEnv(EnvOutcome(eCall[ValCaller], eLog[eCall[ValCaller].idx]))
    \/ ValGetPython(IF GetPythonSucceeds(envDir) THEN "ok" ELSE "FileNotFoundError")
    \/ \E outcome \in {"exit0", "exitN", "TimeoutExpired", "OSError"} :
          ValSubprocessRun(outcome)

SpecVal == InitVal /\ [][NextVal]_vars

\* The hub and one background task
InitSave == SaveInit /\ HubQuiet /\ EnvQuiet /\ RunQuiet /\ DlQuiet /\ AdjQuiet /\ ValQuiet

NextSave ==
    \/ SaveDetection
    \/ \E det \in Detections : NextDetection(det)

SpecSave == InitSave /\ [][NextSave]_vars

Init == HubInit /\ TaskInit /\ EnvQuiet /\ RunQuiet /\ DlQuiet /\ AdjQuiet /\ SaveQuiet /\ ValQuiet

Next ==
    \/ \E w \in WebSockets, j \in JobIds : connect(w, j)
    \/ \E w \in WebSockets : ClientDrop(w)
    \/ \E w \in WebSockets : disconnect(w)
    \/ \E c \in CoIds : SendJson(c)
    \/ \E h \in Handoffs : HandoffBegin(h)
    \/ StartTask
    \/ TaskSend
    \/ TaskResume
    \/ \E ok \in BOOLEAN, k \in 0..1 : TaskSyncStage(ok, k)
    \/ TaskThreadStart
    \/ ThreadCallback
    \/ \E ok \in BOOLEAN : TaskThreadEnd(ok)

Spec == Init /\ [][Next]_vars

\* The loop runs every coroutine that is ready, and a blocking stage ends
Fairness ==
    /\ WF_vars(TaskSend)
    /\ WF_vars(TaskResume)
    /\ WF_vars(TaskThreadStart)
    /\ WF_vars(\E ok \in BOOLEAN, k \in 0..1 : TaskSyncStage(ok, k))
    /\ WF_vars(\E ok \in BOOLEAN : TaskThreadEnd(ok))
    /\ \A c \in CoIds : WF_vars(SendJson(c))
    /\ WF_vars(\E h \in Handoffs : HandoffBegin(h))

FairSpec == Spec /\ Fairness

\* The same with cancellation of the task
NextCancel == Next \/ TaskCancel

SpecCancel == Init /\ [][NextCancel]_vars

FairSpecCancel == SpecCancel /\ Fairness

----------------------------------------------------------------------------
(***************************************************************************)
(* Properties of the progress hub and the background tasks                 *)
(***************************************************************************)

\* A send_complete call of coroutine c returns in this step
CompleteReturns(c) ==
    co[c].st # "returned" /\ co'[c].st = "returned" /\ co'[c].op = "complete"

\* A send_complete or send_error call of coroutine c returns in this step
TerminalReturns(c) ==
    co[c].st # "returned" /\ co'[c].st = "returned" /\ co'[c].op \in {"complete", "error"}

\* C1: at the moment send_complete(job_id) returns, get_connection_count(job_id)
\* is 0, whatever connected or disconnected while the completion was delivered.
C1_CountZeroAfterComplete ==
    [][\A c \in CoIds, j \in JobIds :
          (CompleteReturns(c) /\ co'[c].job = j) => get_connection_count(j)' = 0]_vars

\* send_complete returned after delivering the completion to two subscribers,
\* the second of which connected while the first delivery was awaited
C1_Witness ==
    /\ co[Main].st = "returned" /\ co[Main].op = "complete"
    /\ \A w \in {1, 2} : /\ hPc[w] = "open" /\ wsJob[w] = TaskJob
                         /\ received[w] # <<>>
                         /\ received[w][Len(received[w])].t = "complete"
    /\ get_connection_count(TaskJob) = 0

\* No websocket gets, after a terminal event, an event published later
NoLateDelivery ==
    \A w \in WebSockets : \A i, k \in 1..Len(received[w]) :
        (i < k /\ received[w][i].t \in {"complete", "error"})
            => received[w][k].n < received[w][i].n

\* C2: when send_complete or send_error returns, the channel of the job id is
\* gone, and no subscriber registered before the terminal event receives an
\* event published after it.
C2_TerminalEndsChannel ==
    /\ [][\A c \in CoIds, j \in JobIds :
             (TerminalReturns(c) /\ co'[c].job = j) => j \notin DOMAIN active_connections']_vars
    /\ []NoLateDelivery

\* C3: a started task makes exactly one terminal publish: send_complete when
\* every blocking stage ran and succeeded, send_error otherwise; never both,
\* and it always gets there.
C3_ExactlyOneTerminal ==
    /\ [](Len(tTerm) <= 1)
    /\ [](tState = "done" =>
             /\ Len(tTerm) = 1
             /\ (tTerm[1] = "complete" <=> tStagesOk = NumStages(tKind)))
    /\ (tState = "run" ~> tState = "done")

\* A task ended with send_error after a stage failed, and a subscriber got the event
C3_Witness ==
    /\ tState = "done" /\ tTerm = <<"error">> /\ tStagesOk < NumStages(tKind)
    /\ \E w \in WebSockets : \E i \in 1..Len(received[w]) : received[w][i].t = "error"

\* C12: every subscriber receives the events of a task id in the order they
\* were published; an event handed off by a callback is never delivered after
\* an event the task published later, nor after the task's terminal event.
C12_DeliveredInPublishOrder ==
    \A w \in WebSockets : \A i, k \in 1..Len(received[w]) :
        i < k => received[w][i].n < received[w][k].n

\* A send_* call of coroutine c ends in this step
CallEnds(c) == co[c].st = "sending" /\ co'[c].st \in {"returned", "raised"}

Subscribed(d, w, j) == j \in DOMAIN d /\ InSeq(w, d[j])

Got(w, c) == \E i \in 1..Len(received'[w]) : received'[w][i].n = co'[c].ev

\* C13: when a send_progress, send_complete or send_error call ends, every
\* subscriber whose delivery failed is off the task's list, every other
\* subscriber the call started with has received the event, and (for
\* progress and error) is still on the list.
C13_FailedSubscriberRemoved ==
    [][\A c \in CoIds : CallEnds(c) =>
          /\ \A w \in co'[c].fail : ~Subscribed(active_connections', w, co'[c].job)
          /\ \A i \in 1..Len(co'[c].sub0) :
                LET w == co'[c].sub0[i] IN
                    alive[w] => /\ Got(w, c)
                                /\ co'[c].op # "complete" =>
                                       Subscribed(active_connections', w, co'[c].job)]_vars

SubscribersOf(d, j) == IF j \in DOMAIN d THEN d[j] ELSE <<>>

\* Coroutine c makes a send_* call in this step while the task id has no subscriber
CallWithoutSubscribers(c) ==
    /\ co[c].st \in {"idle", "scheduled"}
    /\ co'[c].st = "returned"
    /\ SubscribersOf(active_connections, co'[c].job) = <<>>

TimesGot(w, c) == Cardinality({i \in 1..Len(received'[w]) : received'[w][i].n = co'[c].ev})

\* C15: when a send_progress call ends, every subscriber that was registered
\* from its start to its end has received the event exactly once, whatever
\* connected or disconnected meanwhile.
C15_ProgressReachesAll ==
    [][\A c \in CoIds : (CallEnds(c) /\ co'[c].op = "progress") =>
          \A i \in 1..Len(co'[c].sub0) :
              LET w == co'[c].sub0[i] IN
                  (alive[w] /\ hPc[w] = "open") => TimesGot(w, c) = 1]_vars

\* C16: a task id is a key of the subscriber mapping only while it has at
\* least one subscriber.
C16_NoEmptyChannel ==
    \A j \in DOMAIN active_connections : Len(active_connections[j]) >= 1

\* C18: a task that was cancelled publishes a terminal event for its task id.
C18_CancelPublishesTerminal == (tState = "cancelled") ~> (tTerm # <<>>)

\* The two blocking stages of _prepare_model_task: the weights download is
\* its first asyncio.to_thread call, the environment build its second
ThreadStages(kind) == {i \in 1..Len(Program(kind)) : Program(kind)[i] = "T"}
DownloadPc == CHOOSE i \in ThreadStages("prepare_model") :
                  \A k \in ThreadStages("prepare_model") : i <= k
EnvBuildPc == CHOOSE i \in ThreadStages("prepare_model") :
                  \A k \in ThreadStages("prepare_model") : k <= i

EnvBuildStarted == tKind = "prepare_model" /\ tPc = EnvBuildPc /\ tState = "stage"
DownloadFailed == tKind = "prepare_model" /\ tFail = DownloadPc

\* C29: in the prepare-model task the environment build starts only after
\* the weights download has completed successfully; when the download fails
\* the environment build is never started and an error event is published.
C29_BuildOnlyAfterDownload ==
    /\ [](EnvBuildStarted => (tStagesOk >= 1 /\ tFail = 0))
    /\ [](DownloadFailed => ~EnvBuildStarted)
    /\ DownloadFailed ~> (DownloadFailed /\ tTerm = <<"error">>)

C29_Witness == DownloadFailed /\ tState = "done" /\ tTerm = <<"error">> /\ tStagesOk = 0

\* Websocket w is in the subscriber list of the job id it connected for
Registered(w) ==
    /\ wsJob[w] \in DOMAIN active_connections
    /\ InSeq(w, active_connections[wsJob[w]])

\* The endpoint of w calls disconnect(websocket, job_id) in this step
DisconnectCall(w) == hPc[w] = "open" /\ hPc'[w] \in {"closed", "raised"}

\* C36: disconnect(websocket, job_id) for a websocket that is not registered
\* under job_id at that moment completes without raising and leaves the
\* other subscribers of job_id unchanged.
C36_DisconnectUnregistered ==
    [][\A w \in WebSockets : (DisconnectCall(w) /\ ~Registered(w)) =>
           /\ hPc'[w] = "closed"
           /\ active_connections' = active_connections]_vars

\* A disconnect of an unregistered websocket never changes the mapping
C36_OthersUnchanged ==
    [][\A w \in WebSockets : (DisconnectCall(w) /\ ~Registered(w)) =>
           active_connections' = active_connections]_vars

\* C37: send_progress never raises because of a concurrent hub change: when
\* the channel of the job id was removed while a delivery was awaited that
\* then fails, the cleanup completes without error and the channel is not
\* recreated.
C37_ProgressCleanupSafe ==
    /\ [](\A c \in CoIds : ~(co[c].op = "progress" /\ co[c].st = "raised"))
    /\ [][\A c \in CoIds :
             (CallEnds(c) /\ co[c].op = "progress" /\ co[c].job \notin DOMAIN active_connections)
                 => co[c].job \notin DOMAIN active_connections']_vars

\* A send_progress call that ends never adds a key to the mapping
C37_ChannelNotRecreated ==
    [][\A c \in CoIds :
          (CallEnds(c) /\ co[c].op = "progress" /\ co[c].job \notin DOMAIN active_connections)
              => co[c].job \notin DOMAIN active_connections']_vars

----------------------------------------------------------------------------
(***************************************************************************)
(* Properties of the environment manager                                   *)
(***************************************************************************)

Building(c) == eCall[c].tool \in {"started", "wrote", "python"}

\* C4: at most one micromamba build is in flight for the environment name.
C4_OneBuildInFlight == Cardinality({c \in Callers : Building(c)}) <= 1

\* The micromamba of call c has written into the directory and not exited
BuildingInto(c) == eCall[c].tool \in {"wrote", "python"}

\* Call c takes the rmtree step of line 190 or of line 275 and it removes
\* something of the directory
Deletes(c) ==
    /\ eCall[c].pc \in {"rm", "cleanup"}
    /\ eCall'[c] # eCall[c]
    /\ env_exists(envDir)
    /\ envDir' # envDir

\* C33: no get_or_create_env call deletes the environment directory while
\* another call is building into it; a concurrent call that finds the
\* directory present but not yet valid does not remove it.
C33_NoDeleteWhileBuilding ==
    [][\A c \in Callers : Deletes(c) =>
           \A d \in Callers \ {c} : ~BuildingInto(d)]_vars

\* C5: a call that fails inside _create_env raises the build error, which
\* carries the last output line read, and leaves no directory at env_path.
C5_FailedBuildLeavesNothing ==
    \A i \in 1..Len(eLog) :
        (eLog[i].out = "raised" /\ eLog[i].inCreate /\ ~eLog[i].ov) =>
            /\ eLog[i].dir = "absent"
            /\ eLog[i].err \in {"BuildError", "PopenError"}
            /\ (eLog[i].err = "BuildError" => eLog[i].errLine = eLog[i].lines)

\* Calls i and i+1 ran one after the other, with no other call during either
InARow(i) ==
    /\ i + 1 <= Len(eLog)
    /\ eLog[i].out # "running" /\ eLog[i + 1].out # "running"
    /\ ~eLog[i].ov /\ ~eLog[i + 1].ov

SpecUnchanged(i) == eLog[i].y0 = eLog[i + 1].y1

C7_NoStaleEnvironment ==
    \A i \in 1..Len(eLog) :
        eLog[i].out = "returned" => eLog[i].content >= eLog[i].y0

\* C20: while environment.yml for the environment name and platform is
\* missing, every get_or_create_env call fails with FileNotFoundError, whether
\* or not the environment directory exists.
C20_MissingSpecIsFatal ==
    \A i \in 1..Len(eLog) :
        (eLog[i].out # "running" /\ ~yamlPresent) =>
            /\ eLog[i].out = "raised"
            /\ eLog[i].err = "FileNotFoundError"

\* The fractions of one call are non-decreasing in call order and lie in [0,1]
ProgressMonotone(p) ==
    /\ \A k \in 1..Len(p) : p[k] \in 0..100
    /\ \A k \in 1..(Len(p) - 1) : p[k] <= p[k + 1]

Reported(p, fraction) == \E k \in 1..Len(p) : p[k] = fraction

\* C21 without the readiness of the returned environment
C21_ProgressShape ==
    \A i \in 1..Len(eLog) :
        /\ ProgressMonotone(eLog[i].prog)
        /\ eLog[i].out = "returned" => Reported(eLog[i].prog, 100)
        /\ eLog[i].out = "raised" => ~Reported(eLog[i].prog, 100)

\* C21: during one get_or_create_env call the reported fractions are
\* non-decreasing and lie in [0,1], and 1.0 is reported exactly when the call
\* returns a ready environment, never before a failure.
C21_ProgressMonotoneToReady ==
    \A i \in 1..Len(eLog) :
        /\ ProgressMonotone(eLog[i].prog)
        /\ eLog[i].out = "raised" => ~Reported(eLog[i].prog, 100)
        /\ eLog[i].out = "returned" =>
               Reported(eLog[i].prog, 100) /\ validate_env(eLog[i].dir)

\* C30: when the existing invalid environment directory cannot be removed
\* before a rebuild, get_or_create_env does not raise because of it: no call
\* ends with the error of the removal before it has entered _create_env.
C30_RemovalFailureNotFatal ==
    \A i \in 1..Len(eLog) :
        ~(/\ eLog[i].out = "raised"
          /\ eLog[i].err = "RmtreeError"
          /\ ~eLog[i].inCreate)

\* C39: whenever get_or_create_env returns normally the returned environment
\* is ready: at the return its directory exists and holds the interpreter, so
\* a get_python call made right then succeeds; also after a build whose tool
\* exited with code 0.
C39_ReturnedEnvironmentReady ==
    \A i \in 1..Len(eLog) :
        eLog[i].out = "returned" => GetPythonSucceeds(eLog[i].dir)

\* The same for the calls during which no other call was running
C39_ReadyWhenAlone ==
    \A i \in 1..Len(eLog) :
        (eLog[i].out = "returned" /\ ~eLog[i].ov) => GetPythonSucceeds(eLog[i].dir)

----------------------------------------------------------------------------
(***************************************************************************)
(* Properties of the inference runner                                      *)
(***************************************************************************)

RunDone(j) == rJob[j].pc \in {"returned", "raised"}

\* C8: once run_detection with a non-empty image list has returned or raised,
\* neither its temporary file list nor its temporary result file exists.
C8_NoTempFilesLeft ==
    \A j \in RunJobs :
        (RunDone(j) /\ rJob[j].n > 0) =>
            /\ ~rJob[j].list
            /\ rOut[OutPath(rImpl, j)] \in {"absent", "foreign"}

\* C9: when the child exited with a non-zero code, run_detection raises an
\* error that carries the command line, all of the child's stdout and all of
\* the child's stderr, the lines read for progress included.
C9_ErrorCarriesStreams ==
    \A j \in RunJobs :
        (RunDone(j) /\ rJob[j].child = "exited" /\ rJob[j].code # 0
                    /\ rJob[j].err.kind # "CallbackError") =>
            /\ rJob[j].pc = "raised"
            /\ rJob[j].err.kind = "ExecutionError"
            /\ rJob[j].err.cmd
            /\ rJob[j].err.stdout = rJob[j].sout
            /\ rJob[j].err.stderr = rJob[j].serr

\* The X of the lines "Processing image X/Y" among the stderr lines
IsProgressLine(x) == x > 0
ProgressLines(serr) == SelectSeq(serr, IsProgressLine)

\* C26: for a list of N images every stderr line "Processing image X/Y" makes
\* the callback receive 0.15 + 0.80*X/N; every such value lies in
\* [0.15, 0.95], and strictly inside when 0 < X < N.
C26_LineProgressInLocalRange ==
    \A j \in RunJobs :
        LET X == ProgressLines(IF rJob[j].pc = "returned" THEN rJob[j].serr
                               ELSE SubSeq(rJob[j].serr, 1, rJob[j].read))
            N == rJob[j].n
            p == rJob[j].prog
        IN  /\ Len(p) = Len(X)
            /\ \A k \in 1..Len(p) :
                   /\ p[k][1] * 100 * N = (15 * N + 80 * X[k]) * p[k][2]
                   /\ 15 * p[k][2] <= 100 * p[k][1]
                   /\ 100 * p[k][1] <= 95 * p[k][2]
                   /\ (0 < X[k] /\ X[k] < N) =>
                          (15 * p[k][2] < 100 * p[k][1] /\ 100 * p[k][1] < 95 * p[k][2])

\* C28: validate_environment returns True or False for every outcome
\* (environment creation failure, missing interpreter, non-zero exit of the
\* check, timeout) and never raises; it returns True only for exit code 0.
C28_ValidateNeverRaises ==
    /\ vPc # "raised"
    /\ vPc = "returned" => (vRet \in BOOLEAN /\ (vRet <=> vErr = "exit0"))

C28_Witness == vPc = "returned" /\ vErr = "TimeoutExpired" /\ vRet = FALSE

\* validate_environment has been called and has not returned
Validating == vPc \in {"env", "python", "run"}

\* C38: validate_environment is a pure health check: no step of the call
\* creates, rebuilds or deletes the environment directory, so the on-disk
\* environment is the same before and after the call.
C38_ValidateLeavesEnvironment ==
    [][Validating => envDir' = envDir /\ envContent' = envContent]_vars

\* C34: run_detection of megadetector_runner.py terminates for a child that
\* writes a finite amount to stdout and stderr and then exits: once the child
\* is started the call returns or raises.
C34_RunDetectionTerminates ==
    \A j \in RunJobs :
        (rImpl = "megadetector_runner" /\ rJob[j].child = "running") ~> RunDone(j)

\* The same for run_detection of detection.py, which calls communicate()
\* right after Popen
C34_CommunicateTerminates ==
    \A j \in RunJobs :
        (rImpl = "detection" /\ rJob[j].child = "running") ~> RunDone(j)

\* The child is blocked writing to stdout while run_detection is still in
\* its stderr loop
C34_BlockedWhileReadingStderr ==
    \E j \in RunJobs : rJob[j].pc = "reading" /\ rJob[j].child = "blocked"

\* Job j has returned the parsed content of a result file
ReturnedResults(j) == rJob[j].pc = "returned" /\ rJob[j].got # "none"

\* The step rewrites a file that the run of another job made or wrote
OverwritesForeign ==
    \E p \in DOMAIN rOut : rOwner[p] # 0 /\ rOwner'[p] \notin {0, rOwner[p]}

\* The step is the end of job j's call and unlinks a file of another job
UnlinksForeign(j) ==
    /\ ~RunDone(j) /\ RunDone(j)'
    /\ \E p \in DOMAIN rOut :
          rOut[p] # "absent" /\ rOut'[p] = "absent" /\ rOwner[p] \notin {0, j}

\* C35: two inference jobs that run concurrently never share a temporary
\* result artifact: no job overwrites or deletes the output file of another
\* job, and each job returns the results its own child process produced.
C35_NoSharedResultFile ==
    /\ [][~OverwritesForeign /\ \A j \in DOMAIN rJob : ~UnlinksForeign(j)]_vars
    /\ [](\A j \in DOMAIN rJob : ReturnedResults(j) => rJob[j].from = j)

\* The same for the runner of megadetector_runner.py, whose result file has
\* a name made by mkstemp
C35_MkstempNotShared ==
    /\ [][rImpl = "megadetector_runner" =>
             ~OverwritesForeign /\ \A j \in DOMAIN rJob : ~UnlinksForeign(j)]_vars
    /\ [](rImpl = "megadetector_runner" =>
             \A j \in DOMAIN rJob : ReturnedResults(j) => rJob[j].from = j)

----------------------------------------------------------------------------
(***************************************************************************)
(* Properties of the repository downloader                                 *)
(***************************************************************************)

Failed == {f \in Files : dFile[f].st = "failed"}

\* C10: when download_repo has returned for a listed batch, every file was
\* attempted, the result is True exactly when no file failed, and every file
\* that did not fail is at its destination with the remote size.
C10_BatchResult ==
    (dPc = "returned" /\ \A f \in Files : dFile[f].st # "none") =>
        /\ \A f \in Files : dFile[f].st \in {"ok", "failed"}
        /\ dRet = (Failed = {})
        /\ \A f \in Files \ Failed : dFile[f].local = dFile[f].remote

\* Files whose local copy existed with exactly the remote size before the call
AlreadyComplete == {f \in Files : dFile[f].local0 = dFile[f].remote}

\* Bytes received over the network during the call
NewlyTransferred == SumOver([f \in Files |-> dFile[f].net], Files)

Listed == \A f \in Files : dFile[f].st # "none"

\* C22: a file whose local copy already exists with exactly the remote size
\* causes no network transfer and no write, its bytes are not counted as newly
\* transferred, and the final reported progress of download_repo is 1.0.
C22_ExistingFileSkipped ==
    (dPc = "returned" /\ Listed /\ AlreadyComplete # {}) =>
        /\ \A f \in AlreadyComplete : ~dFile[f].requested /\ ~dFile[f].opened
        /\ downloaded_bytes = NewlyTransferred
        /\ dProg = <<1, 1>>

\* C23: the destination path never holds a partially written file while its
\* download is under way, and no file is at the destination after download_file
\* failed.
C23_NoPartialAtDestination ==
    \A f \in Files :
        /\ dFile[f].st = "failed" => dFile[f].local = Absent
        /\ dFile[f].st = "writing" =>
               (dFile[f].local = Absent \/ dFile[f].local = dFile[f].remote)

AllWorkersFinished == Listed /\ \A f \in Files : dFile[f].st \in {"ok", "failed"}

\* C24: within one download_repo invocation downloaded_bytes never decreases,
\* and once all workers have finished it equals the sum of the byte counts
\* passed to update_progress.
C24_NoLostUpdate ==
    /\ [][dPc = "polling" => downloaded_bytes' >= downloaded_bytes]_vars
    /\ [](AllWorkersFinished => downloaded_bytes = passed)

\* Two threads have both been through update_progress and all have finished
C24_Witness ==
    /\ AllWorkersFinished
    /\ \A f \in Files : dFile[f].net > 0
    /\ downloaded_bytes = passed

\* C25: every fraction download_repo passes to its progress callback lies in
\* [0,1].
C25_ProgressInUnitInterval ==
    /\ 0 <= dProg[1]
    /\ dProg[1] <= dProg[2]

----------------------------------------------------------------------------
(***************************************************************************)
(* Properties of the adaptive worker scaling                               *)
(***************************************************************************)

WorkersInRange(w) == min_workers <= w /\ w <= max_workers_limit

\* An adjust_workers call that passed the interval test with at least three
\* samples changes the pool size by the rule of the claim
AdjustmentRule ==
    (aOp' = "adjusted") =>
        max_workers' =
            IF RecentSlow(speed_samples) /\ max_workers > min_workers THEN max_workers - 1
            ELSE IF RecentFast(speed_samples) /\ max_workers < max_workers_limit THEN max_workers + 1
            ELSE max_workers

C17_EmptyListNoWork ==
    \A j \in RunJobs :
        (rJob[j].pc # "idle" /\ rJob[j].n = 0) =>
            /\ rJob[j].child = "none"
            /\ ~rJob[j].made
            /\ ~rJob[j].envCall
            /\ rJob[j].pc # "raised"
            /\ rJob[j].pc = "returned" => rJob[j].res = 0

\* C19: when the child exited with code 0 without having written the result
\* file, run_detection raises and returns no result.
C19_MissingOutputIsFatal ==
    \A j \in RunJobs :
        (RunDone(j) /\ rJob[j].child = "exited" /\ rJob[j].code = 0 /\ ~rJob[j].wrote) =>
            /\ rJob[j].pc = "raised"
            /\ rJob[j].got = "none"

----------------------------------------------------------------------------
(***************************************************************************)
(* Properties of the result storage                                        *)
(***************************************************************************)

InUnitInterval(v) == 0 <= v /\ v <= Unit

\* C27: a detection with a bounding-box coordinate or a confidence outside
\* [0,1], or with a category outside {1,2,3}, ends in a validation error; it
\* is never stored.
C27_InvalidDetectionRejected ==
    (/\ sOut.st # "none"
     /\ \/ sDet.category \notin {1, 2, 3}
        \/ ~InUnitInterval(sDet.conf)
        \/ \E i \in 1..4 : ~InUnitInterval(sDet.bbox[i]))
    => sOut.st = "ValidationError"

----------------------------------------------------------------------------
(***************************************************************************)
(* Properties of the download with adaptive scaling                        *)
(***************************************************************************)

\* The file downloads running in pool threads
RunningDownloads == {f \in DOMAIN dFile : Running(f)}

\* C31: at every moment during download_repo the number of file downloads
\* running concurrently is at most the current worker-pool size
\* (self.max_workers), also after adjust_workers has shrunk it by one.
C31_RunningWithinPoolSize ==
    dPc = "polling" => Cardinality(RunningDownloads) <= max_workers

\* The running downloads never exceed the size the executor was made with
C31_RunningWithinExecutor ==
    dPc = "polling" => Cardinality(RunningDownloads) <= executor


\* A step in which a download_repo call has listed the files and enters its
\* poll loop
InvocationStarts == dPc # "polling" /\ dPc' = "polling"

\* C32: each download_repo invocation starts from fresh per-invocation
\* state: downloaded bytes 0, an empty throughput-sample window and the
\* configured initial pool size, also on a downloader used before.
C32_FreshInvocationState ==
    [][InvocationStarts =>
          /\ downloaded_bytes' = 0
          /\ speed_samples' = <<>>
          /\ max_workers' = ctor_max_workers]_vars

\* The byte counters are the part of the state that download_repo does reset
C32_CountersReset ==
    [][InvocationStarts => downloaded_bytes' = 0 /\ passed' = 0]_vars


====
